---- MODULE Spec2Model ----
(***************************************************************************)
(* A model of build_dataset_from_spotify.py: the playlist-to-CSV pipeline  *)
(* (main), and its pure helpers parse_playlist_id, choice_label,           *)
(* build_choices, correct_answer_index, emoji_from_title,                  *)
(* emoji_from_genres, emoji_from_audio_features and synth_emoji_riddle.    *)
(*                                                                         *)
(* Python strings are modelled as sequences of one-character strings, so   *)
(* that lower(), split(), startswith() and substring search are computed.  *)
(* Real numbers in 0..1 (danceability, energy, valence, acousticness) are  *)
(* modelled in hundredths; tempo in whole beats per minute.                *)
(***************************************************************************)
EXTENDS Integers, Sequences, FiniteSets, TLC

VARIABLES
    url,          \* the playlist reference handed to parse_playlist_id
    playlist_id,  \* what parse_playlist_id gave: NotCalled, a return or a raise
    all_tracks,   \* build_choices: the track batch
    correct_idx,  \* build_choices: the 0-based index of the correct track
    choices,      \* the choice list of the row
    answer_idx,   \* the row's answer_idx (0-based), -1 before it is computed
    cpc,          \* where the row's choice code stands: "start", "built", "done"
    title,        \* synth_emoji_riddle: the title
    genres,       \* synth_emoji_riddle: the genre tags
    audio_features, \* the descriptor dict (af), a function of the keys it holds
    audio_emojis, \* what emoji_from_audio_features gave, or NotCalled
    emojis,       \* what synth_emoji_riddle gave, or NotCalled
    remote,       \* the playlist on the service: its entries, in order
    max_tracks,   \* MAX_TRACKS, the optional track cap (0 = no limit)
    pc,           \* where main stands
    exc,          \* the exception that ended main, or "none"
    next_page,    \* results["next"]: the number of the page to fetch next, or 0
    items,        \* main: items
    raw_tracks,   \* main: raw_tracks
    track_ids,    \* main: track_ids
    artist_ids,   \* main: artist_ids
    cursor,       \* main: i of the running batch loop
    audio_features_map, \* main: audio_features_map
    artist_genre_map,   \* main: artist_genre_map
    rows,         \* main: rows
    csv,          \* the writes to OUTPUT_CSV, each the rows written
    release_date, \* year_from_date: the release date, a string or None
    year,         \* what year_from_date gave, or NotCalled
    year_column,  \* the row's "year" column, or NotWritten
    dataset,      \* trivia_scoreboard_app: tracks, the dataset load_tracks gave
    year_min,     \* trivia_scoreboard_app: YEAR_MIN
    year_max,     \* trivia_scoreboard_app: YEAR_MAX
    sb_client,    \* trivia_scoreboard_app: whether the Supabase client exists
    rounds_target, \* trivia_scoreboard_app: the setting ROUNDS_TARGET
    session_state, \* st.session_state of the session
    username,     \* the value of the name text input
    year_guess,   \* the value of the year slider
    rendered,     \* what the last script run rendered
    calls,        \* the calls of submit_session_to_supabase, each with its game
    table,        \* the rows of SUPABASE_TABLE
    game,         \* how many times Play Again was clicked
    inputs,       \* how many times the slider was moved or the name edited
    daily,        \* sound_bite_app: what every session of the day runs with
    board,        \* sound_bite_app: the sessions, each its state and widgets
    now,          \* the wall clock, in microseconds
    ticks,        \* how many times the clock was advanced
    leaderboard,  \* the rows of SUPABASE_TABLE of sound_bite_app
    saves,        \* the leaderboard saves that ended, each with its outcome
    moves         \* sound_bite_app: how many widget changes the sessions made

parseVars == <<url, playlist_id>>
choiceVars == <<all_tracks, correct_idx, choices, answer_idx, cpc>>
riddleVars == <<title, genres, audio_features, audio_emojis, emojis>>

mainVars == <<remote, max_tracks, pc, exc, next_page, items, raw_tracks, track_ids,
              artist_ids, cursor, audio_features_map, artist_genre_map, rows, csv>>

yearVars == <<release_date, year, year_column>>

\* what a session of the year game is set up with
setupVars == <<dataset, year_min, year_max, sb_client, rounds_target>>

triviaVars == <<dataset, year_min, year_max, sb_client, rounds_target, session_state,
                username,
                year_guess, rendered, calls, table, game, inputs>>

\* the variables of the dataset builder
builderVars == <<parseVars, choiceVars, riddleVars, mainVars, yearVars>>

boardVars == <<daily, board, now, ticks, leaderboard, saves, moves>>

\* the variables of the year helper and of the two apps
appVars == <<yearVars, triviaVars, boardVars>>

vars == <<url, playlist_id, all_tracks, correct_idx, choices, answer_idx, cpc,
          title, genres, audio_features, audio_emojis, emojis,
          remote, max_tracks, pc, exc, next_page, items, raw_tracks, track_ids,
          artist_ids, cursor, audio_features_map, artist_genre_map, rows, csv,
          release_date, year, year_column,
          dataset, year_min, year_max, sb_client, rounds_target, session_state, username,
          year_guess, rendered, calls, table, game, inputs,
          daily, board, now, ticks, leaderboard, saves, moves>>

----------------------------------------------------------------------------
(* Strings                                                                 *)

\* str.startswith
StartsWith(s, prefix) ==
    /\ Len(s) >= Len(prefix)
    /\ SubSeq(s, 1, Len(prefix)) = prefix

\* str.find for one character, from position `from` on: the index, or 0
RECURSIVE FindChar(_, _, _)
FindChar(s, cs, from) ==
    IF from > Len(s) THEN 0
    ELSE IF s[from] \in cs THEN from
    ELSE FindChar(s, cs, from + 1)

\* str.split(sep) for a one-character separator: always at least one piece
RECURSIVE Split(_, _)
Split(s, sep) ==
    LET i == FindChar(s, {sep}, 1) IN
    IF i = 0 THEN <<s>>
    ELSE <<SubSeq(s, 1, i - 1)>> \o Split(SubSeq(s, i + 1, Len(s)), sep)

\* sep.join(pieces)
RECURSIVE Join(_, _)
Join(pieces, sep) ==
    IF pieces = <<>> THEN <<>>
    ELSE IF Len(pieces) = 1 THEN pieces[1]
    ELSE pieces[1] \o sep \o Join(Tail(pieces), sep)

\* the sequences over S of length at most n
SeqsUpTo(S, n) == UNION {[1..m -> S] : m \in 0..n}

UpperCase == <<"A", "B", "C", "D", "E", "F", "G", "H", "I", "J", "K", "L", "M",
               "N", "O", "P", "Q", "R", "S", "T", "U", "V", "W", "X", "Y", "Z">>
LowerCase == <<"a", "b", "c", "d", "e", "f", "g", "h", "i", "j", "k", "l", "m",
               "n", "o", "p", "q", "r", "s", "t", "u", "v", "w", "x", "y", "z">>
Digits == {"0", "1", "2", "3", "4", "5", "6", "7", "8", "9"}

IsUpper(c) == \E i \in 1..26 : UpperCase[i] = c
IsLower(c) == \E i \in 1..26 : LowerCase[i] = c
IsAlpha(c) == IsUpper(c) \/ IsLower(c)

\* the lower-case letter of every upper-case letter
ToLower == [c \in { UpperCase[i] : i \in 1..26 } |->
               LowerCase[CHOOSE i \in 1..26 : UpperCase[i] = c]]

LowerChar(c) == IF c \in DOMAIN ToLower THEN ToLower[c] ELSE c

\* str.lower
Lower(s) == [i \in 1..Len(s) |-> LowerChar(s[i])]

----------------------------------------------------------------------------
(* parse_playlist_id                                                       *)

URI_PREFIX == <<"s", "p", "o", "t", "i", "f", "y", ":",
                "p", "l", "a", "y", "l", "i", "s", "t", ":">>
PLAYLIST == <<"p", "l", "a", "y", "l", "i", "s", "t">>

\* urllib.parse scheme_chars
IsSchemeChar(c) == IsAlpha(c) \/ c \in Digits \/ c \in {"+", "-", "."}

\* urlsplit: what is left of the reference once a scheme is taken off
AfterScheme(u) ==
    LET i == FindChar(u, {":"}, 1) IN
    IF /\ i > 1
       /\ IsAlpha(u[1])
       /\ \A j \in 1..(i - 1) : IsSchemeChar(u[j])
    THEN SubSeq(u, i + 1, Len(u))
    ELSE u

\* urlsplit: what is left once a //netloc is taken off (_splitnetloc)
AfterNetloc(u) ==
    IF Len(u) >= 2 /\ u[1] = "/" /\ u[2] = "/"
    THEN LET d == FindChar(u, {"/", "?", "#"}, 3) IN
         IF d = 0 THEN <<>> ELSE SubSeq(u, d, Len(u))
    ELSE u

\* everything before the first occurrence of c
Before(u, c) ==
    LET i == FindChar(u, {c}, 1) IN
    IF i = 0 THEN u ELSE SubSeq(u, 1, i - 1)

\* urlparse(url).path: scheme, netloc, fragment and query taken off
UrlPath(u) == Before(Before(AfterNetloc(AfterScheme(u)), "#"), "?")

\* [p for p in parsed.path.split("/") if p]
PathParts(u) == SelectSeq(Split(UrlPath(u), "/"), LAMBDA p : p # <<>>)

NotCalled == [kind |-> "not called", value |-> <<>>]
Returned(v) == [kind |-> "return", value |-> v]
Raised(e) == [kind |-> e, value |-> <<>>]

\* the mutant: the identifier is looked for after any "playlist" segment
parse_playlist_id_any_segment(u) ==
    IF StartsWith(u, URI_PREFIX)
    THEN LET pieces == Split(u, ":") IN Returned(pieces[Len(pieces)])
    ELSE LET parts == PathParts(u) IN
         IF \E i \in 1..(Len(parts) - 1) : parts[i] = PLAYLIST
         THEN Returned(parts[1 + CHOOSE i \in 1..(Len(parts) - 1) :
                                 /\ parts[i] = PLAYLIST
                                 /\ \A j \in 1..(i - 1) : parts[j] # PLAYLIST])
         ELSE IF parts = <<>> THEN Raised("IndexError")
         ELSE Returned(parts[Len(parts)])

parse_playlist_id(u) ==
    IF StartsWith(u, URI_PREFIX)
    THEN LET pieces == Split(u, ":") IN Returned(pieces[Len(pieces)])
    ELSE LET parts == PathParts(u) IN
         IF Len(parts) >= 2 /\ parts[1] = PLAYLIST THEN Returned(parts[2])
         ELSE IF parts = <<>> THEN Raised("IndexError")
         ELSE Returned(parts[Len(parts)])

----------------------------------------------------------------------------
(* choice_label, build_choices, correct_answer_index                       *)

Range(s) == { s[i] : i \in 1..Len(s) }

\* the " — " of choice_label; "-" stands for the em dash
LABEL_SEP == <<" ", "-", " ">>

\* choice_label: the raw track dicts of main always carry "artists" and never
\* "artist", so an empty artist list gives the default ""
choice_label(track_dict) ==
    LET artists == IF track_dict.artists # <<>>
                   THEN Join([n \in 1..Len(track_dict.artists) |->
                                 track_dict.artists[n].name], <<",", " ">>)
                   ELSE <<>>
    IN track_dict.name \o LABEL_SEP \o artists

\* every order random.shuffle can leave the elements of S in
RECURSIVE Shuffles(_)
Shuffles(S) ==
    IF S = {} THEN { <<>> }
    ELSE UNION { { <<x>> \o p : p \in Shuffles(S \ {x}) } : x \in S }

\* s after a shuffle that moved the element at position p[i] to position i
Permuted(s, p) == [i \in 1..Len(s) |-> s[p[i]]]

\* the mutant: the candidate is looked up in seen as it is spelled, not lowered
RECURSIVE WalkUnloweredLookup(_, _, _, _, _, _, _)
WalkUnloweredLookup(labels, lowered, ci, k, idxs, out, seen) ==
    IF idxs = <<>> THEN out
    ELSE LET j == Head(idxs)
             cand == labels[j + 1]
         IN IF j = ci
            THEN WalkUnloweredLookup(labels, lowered, ci, k, Tail(idxs), out, seen)
            ELSE IF cand \in seen
            THEN WalkUnloweredLookup(labels, lowered, ci, k, Tail(idxs), out, seen)
            ELSE IF Len(out) + 1 >= k + 1 THEN Append(out, cand)
            ELSE WalkUnloweredLookup(labels, lowered, ci, k, Tail(idxs),
                                     Append(out, cand), seen \cup {lowered[j + 1]})

\* the loop of build_choices over the shuffled indices idxs (0-based), from the
\* state (out, seen) on; lowered[n] is labels[n].lower(), that is cand.lower()
RECURSIVE Walk(_, _, _, _, _, _, _)
Walk(labels, lowered, ci, k, idxs, out, seen) ==
    IF idxs = <<>> THEN out
    ELSE LET j == Head(idxs)
             cand == labels[j + 1]
         IN IF j = ci THEN Walk(labels, lowered, ci, k, Tail(idxs), out, seen)
            ELSE IF lowered[j + 1] \in seen
            THEN Walk(labels, lowered, ci, k, Tail(idxs), out, seen)
            ELSE IF Len(out) + 1 >= k + 1 THEN Append(out, cand)
            ELSE Walk(labels, lowered, ci, k, Tail(idxs),
                      Append(out, cand), seen \cup {lowered[j + 1]})

\* build_choices for the labels lab of the batch and their lower() low: every
\* outcome of its two shuffles
ChoicesOf(lab, low, ci, k) ==
    LET outs == { Walk(lab, low, ci, k, idxs, <<lab[ci + 1]>>, {low[ci + 1]}) :
                    idxs \in Shuffles(0..(Len(lab) - 1)) }
    IN UNION { { Permuted(out, p) : p \in Shuffles(1..Len(out)) } : out \in outs }

\* build_choices, every outcome of its two shuffles
build_choices(tracks, ci, k) ==
    UNION { ChoicesOf(ll[1], ll[2], ci, k) :
              ll \in { LET labels == [n \in 1..Len(tracks) |-> choice_label(tracks[n])]
                       IN <<labels, [n \in 1..Len(tracks) |-> Lower(labels[n])]>> } }

\* the mutant: the position the correct label had before the shuffle
correct_answer_index_unshuffled(chs, correct_label) == 0

\* correct_answer_index: the 0-based position of the first equal entry, else 0
correct_answer_index(chs, correct_label) ==
    IF \E n \in 1..Len(chs) : chs[n] = correct_label
    THEN (CHOOSE n \in 1..Len(chs) :
             /\ chs[n] = correct_label
             /\ \A m \in 1..(n - 1) : chs[m] # correct_label) - 1
    ELSE 0

\* k of main's call build_choices(raw_tracks, i, k=3)
K == 3

----------------------------------------------------------------------------
(* The emoji riddle: emoji_from_title, emoji_from_genres,                  *)
(* emoji_from_audio_features, synth_emoji_riddle                           *)

\* TITLE_EMOJI_MAP: the keywords of each pattern \b(k1|k2|...)\b and its glyph,
\* named by its code point
TITLE_EMOJI_MAP == <<
    [keys |-> {<<"l", "o", "v", "e">>,
               <<"h", "e", "a", "r", "t">>,
               <<"r", "o", "m", "a", "n", "c", "e">>,
               <<"k", "i", "s", "s">>},
     emo |-> "HEAVY BLACK HEART"],
    [keys |-> {<<"n", "i", "g", "h", "t">>,
               <<"m", "i", "d", "n", "i", "g", "h", "t">>,
               <<"m", "o", "o", "n">>,
               <<"d", "a", "r", "k">>},
     emo |-> "CRESCENT MOON"],
    [keys |-> {<<"d", "a", "y">>,
               <<"s", "u", "n">>,
               <<"s", "u", "m", "m", "e", "r">>,
               <<"h", "o", "t">>,
               <<"h", "e", "a", "t">>},
     emo |-> "BLACK SUN WITH RAYS"],
    [keys |-> {<<"s", "t", "a", "r">>,
               <<"l", "i", "g", "h", "t">>,
               <<"s", "h", "i", "n", "e">>,
               <<"b", "r", "i", "g", "h", "t">>},
     emo |-> "SPARKLES"],
    [keys |-> {<<"r", "a", "i", "n">>,
               <<"t", "e", "a", "r", "s">>,
               <<"c", "r", "y">>,
               <<"s", "a", "d">>},
     emo |-> "CLOUD WITH RAIN"],
    [keys |-> {<<"f", "i", "r", "e">>,
               <<"b", "u", "r", "n">>,
               <<"f", "l", "a", "m", "e">>,
               <<"h", "o", "t">>},
     emo |-> "FIRE"],
    [keys |-> {<<"b", "l", "u", "e">>,
               <<"s", "a", "d">>},
     emo |-> "LARGE BLUE CIRCLE"],
    [keys |-> {<<"r", "e", "d">>},
     emo |-> "LARGE RED CIRCLE"],
    [keys |-> {<<"g", "o", "l", "d">>,
               <<"y", "e", "l", "l", "o", "w">>},
     emo |-> "LARGE YELLOW CIRCLE"],
    [keys |-> {<<"r", "o", "a", "d">>,
               <<"d", "r", "i", "v", "e">>,
               <<"c", "a", "r">>,
               <<"r", "i", "d", "e">>,
               <<"h", "i", "g", "h", "w", "a", "y">>},
     emo |-> "AUTOMOBILE"],
    [keys |-> {<<"c", "i", "t", "y">>,
               <<"t", "o", "w", "n">>},
     emo |-> "CITYSCAPE"],
    [keys |-> {<<"o", "c", "e", "a", "n">>,
               <<"s", "e", "a">>,
               <<"w", "a", "v", "e">>,
               <<"b", "e", "a", "c", "h">>},
     emo |-> "WATER WAVE"],
    [keys |-> {<<"d", "a", "n", "c", "e">>,
               <<"p", "a", "r", "t", "y">>,
               <<"c", "l", "u", "b">>},
     emo |-> "MAN DANCING"],
    [keys |-> {<<"k", "i", "n", "g">>,
               <<"q", "u", "e", "e", "n">>,
               <<"r", "o", "y", "a", "l">>},
     emo |-> "CROWN"],
    [keys |-> {<<"p", "h", "o", "n", "e">>,
               <<"c", "a", "l", "l">>,
               <<"r", "i", "n", "g">>},
     emo |-> "TELEPHONE RECEIVER"],
    [keys |-> {<<"a", "n", "g", "e", "l">>,
               <<"d", "e", "v", "i", "l">>},
     emo |-> "SMILING FACE WITH HALO"],
    [keys |-> {<<"d", "e", "v", "i", "l">>,
               <<"b", "a", "d">>},
     emo |-> "SMILING FACE WITH HORNS"],
    [keys |-> {<<"h", "a", "p", "p", "y">>,
               <<"j", "o", "y">>,
               <<"s", "m", "i", "l", "e">>},
     emo |-> "SMILING FACE WITH SMILING EYES"],
    [keys |-> {<<"c", "r", "y">>,
               <<"t", "e", "a", "r", "s">>},
     emo |-> "LOUDLY CRYING FACE"],
    [keys |-> {<<"y", "o", "u", "n", "g">>,
               <<"y", "o", "u", "t", "h">>},
     emo |-> "CHILD"] >>

\* GENRE_EMOJI_MAP
GENRE_EMOJI_MAP == <<
    [key |-> <<"k", "-", "p", "o", "p">>, emo |-> "FLAG KR"],
    [key |-> <<"e", "m", "o">>, emo |-> "BLACK HEART"],
    [key |-> <<"p", "o", "p", " ", "p", "u", "n", "k">>, emo |-> "SAFETY PIN"],
    [key |-> <<"i", "n", "d", "i", "e">>, emo |-> "HERB"],
    [key |-> <<"h", "i", "p", " ", "h", "o", "p">>, emo |-> "MICROPHONE"],
    [key |-> <<"r", "a", "p">>, emo |-> "MICROPHONE"],
    [key |-> <<"r", "&", "b">>, emo |-> "MULTIPLE MUSICAL NOTES"],
    [key |-> <<"l", "a", "t", "i", "n">>, emo |-> "MARACAS"],
    [key |-> <<"d", "a", "n", "c", "e">>, emo |-> "DANCER"],
    [key |-> <<"e", "d", "m">>, emo |-> "CONTROL KNOBS"],
    [key |-> <<"h", "o", "u", "s", "e">>, emo |-> "HOUSE BUILDING"],
    [key |-> <<"c", "o", "u", "n", "t", "r", "y">>, emo |-> "FACE WITH COWBOY HAT"],
    [key |-> <<"j", "a", "z", "z">>, emo |-> "TRUMPET"],
    [key |-> <<"r", "o", "c", "k">>, emo |-> "GUITAR"],
    [key |-> <<"m", "e", "t", "a", "l">>, emo |-> "SIGN OF THE HORNS"],
    [key |-> <<"s", "o", "u", "l">>, emo |-> "ANATOMICAL HEART"],
    [key |-> <<"f", "u", "n", "k">>, emo |-> "DARK SUNGLASSES"] >>

\* \w of the re module
IsWordChar(c) == IsAlpha(c) \/ c \in Digits \/ c = "_"

\* re.search(r"\b(key)\b", t) for a key made of word characters: key occurs in t
\* with no word character right before it and none right after it
MatchesWord(t, key) ==
    \E i \in 1..(Len(t) - Len(key) + 1) :
        /\ SubSeq(t, i, i + Len(key) - 1) = key
        /\ (i = 1 \/ ~IsWordChar(t[i - 1]))
        /\ (i + Len(key) > Len(t) \/ ~IsWordChar(t[i + Len(key)]))

\* key in g
Contains(g, key) ==
    \E i \in 1..(Len(g) - Len(key) + 1) : SubSeq(g, i, i + Len(key) - 1) = key

TITLE_CAP == 3
GENRE_CAP == 2
AUDIO_CAP == 3
RIDDLE_CAP == 5

\* the loop of emoji_from_title from table entry n on
RECURSIVE TitleLoop(_, _, _)
TitleLoop(t, n, out) ==
    IF n > Len(TITLE_EMOJI_MAP) THEN out
    ELSE LET out2 == IF \E key \in TITLE_EMOJI_MAP[n].keys : MatchesWord(t, key)
                     THEN Append(out, TITLE_EMOJI_MAP[n].emo)
                     ELSE out
         IN IF Len(out2) >= TITLE_CAP THEN out2 ELSE TitleLoop(t, n + 1, out2)

emoji_from_title(ttl) == TitleLoop(Lower(ttl), 1, <<>>)

\* the loop of emoji_from_genres from table entry n on
RECURSIVE GenreLoop(_, _, _)
GenreLoop(g, n, out) ==
    IF n > Len(GENRE_EMOJI_MAP) THEN out
    ELSE LET out2 == IF Contains(g, GENRE_EMOJI_MAP[n].key)
                     THEN Append(out, GENRE_EMOJI_MAP[n].emo)
                     ELSE out
         IN IF Len(out2) >= GENRE_CAP THEN out2 ELSE GenreLoop(g, n + 1, out2)

emoji_from_genres(gs) == GenreLoop(Lower(Join(gs, <<",", " ">>)), 1, <<>>)

\* dict.get(key, default)
Get(d, key, default) == IF key \in DOMAIN d THEN d[key] ELSE default

\* the empty dict
EmptyDict == <<>>

\* the thresholds, in hundredths
DANCE_MIN == 70
ENERGY_MIN == 70
VALENCE_HIGH == 65
VALENCE_LOW == 35
ACOUSTIC_MIN == 60
TEMPO_FAST == 13000
TEMPO_SLOW == 8000

\* s[:n]
Take(s, n) == SubSeq(s, 1, IF Len(s) < n THEN Len(s) ELSE n)

\* the mutant: the tempo is compared without the truthiness test
emoji_from_audio_features_unguarded(af) ==
    IF af = EmptyDict THEN <<>>
    ELSE LET val == Get(af, "valence", 0)
             tempo == Get(af, "tempo", 0)
         IN Take(
            (IF Get(af, "danceability", 0) >= DANCE_MIN THEN <<"MAN DANCING">> ELSE <<>>)
            \o (IF Get(af, "energy", 0) >= ENERGY_MIN THEN <<"HIGH VOLTAGE SIGN">> ELSE <<>>)
            \o (IF val >= VALENCE_HIGH THEN <<"SMILING FACE WITH SMILING EYES">>
                ELSE IF val <= VALENCE_LOW THEN <<"CRYING FACE">> ELSE <<>>)
            \o (IF Get(af, "acousticness", 0) >= ACOUSTIC_MIN THEN <<"VIOLIN">> ELSE <<>>)
            \o (IF tempo >= TEMPO_FAST THEN <<"STOPWATCH">>
                ELSE IF tempo <= TEMPO_SLOW THEN <<"TURTLE">> ELSE <<>>),
            AUDIO_CAP)

emoji_from_audio_features(af) ==
    IF af = EmptyDict THEN <<>>
    ELSE LET val == Get(af, "valence", 0)
             tempo == Get(af, "tempo", 0)
         IN Take(
            (IF Get(af, "danceability", 0) >= DANCE_MIN THEN <<"MAN DANCING">> ELSE <<>>)
            \o (IF Get(af, "energy", 0) >= ENERGY_MIN THEN <<"HIGH VOLTAGE SIGN">> ELSE <<>>)
            \o (IF val >= VALENCE_HIGH THEN <<"SMILING FACE WITH SMILING EYES">>
                ELSE IF val <= VALENCE_LOW THEN <<"CRYING FACE">> ELSE <<>>)
            \o (IF Get(af, "acousticness", 0) >= ACOUSTIC_MIN THEN <<"VIOLIN">> ELSE <<>>)
            \o (IF tempo # 0
                THEN IF tempo >= TEMPO_FAST THEN <<"STOPWATCH">>
                     ELSE IF tempo <= TEMPO_SLOW THEN <<"TURTLE">> ELSE <<>>
                ELSE <<>>),
            AUDIO_CAP)

\* the fallback of synth_emoji_riddle
FALLBACK == <<"MUSICAL NOTE", "SPARKLES", "HEADPHONE">>

\* the mutant: every part is kept, seen or not
RECURSIVE DedupLoopKeepAll(_, _)
DedupLoopKeepAll(parts, final) ==
    IF parts = <<>> THEN final
    ELSE LET final2 == Append(final, Head(parts))
         IN IF Len(final2) >= RIDDLE_CAP THEN final2
            ELSE DedupLoopKeepAll(Tail(parts), final2)

\* the de-dup loop of synth_emoji_riddle; seen is the set of final's glyphs
RECURSIVE DedupLoop(_, _)
DedupLoop(parts, final) ==
    IF parts = <<>> THEN final
    ELSE LET final2 == IF Head(parts) \notin Range(final)
                       THEN Append(final, Head(parts))
                       ELSE final
         IN IF Len(final2) >= RIDDLE_CAP THEN final2
            ELSE DedupLoop(Tail(parts), final2)

\* the mutant: no fallback for an empty list of parts
synth_emoji_riddle_no_fallback(ttl, gs, af) ==
    DedupLoop(emoji_from_title(ttl) \o emoji_from_genres(gs)
                  \o emoji_from_audio_features(af), <<>>)

\* synth_emoji_riddle: the glyphs of the string it returns, in order
synth_emoji_riddle(ttl, gs, af) ==
    LET parts == emoji_from_title(ttl) \o emoji_from_genres(gs)
                     \o emoji_from_audio_features(af)
    IN DedupLoop(IF parts = <<>> THEN FALLBACK ELSE parts, <<>>)

----------------------------------------------------------------------------
(* main                                                                    *)

PLAYLIST_URL == <<
    "h", "t", "t", "p", "s", ":", "/", "/", "o", "p", "e", "n", ".", "s",
    "p", "o", "t", "i", "f", "y", ".", "c", "o", "m", "/", "p", "l", "a",
    "y", "l", "i", "s", "t", "/", "5", "O", "p", "8", "h", "4", "1", "2",
    "0", "j", "e", "5", "t", "h", "N", "5", "8", "Q", "a", "e", "y", "o",
    "?", "s", "i", "=", "U", "4", "1", "i", "1", "n", "9", "r", "R", "L",
    "W", "t", "m", "8", "d", "-", "c", "C", "D", "Q", "Y", "g" >>

\* the batch sizes of the two enrichment loops
AUDIO_BATCH == 100
ARTIST_BATCH == 50

\* None, where an identifier is expected
NULL == "None"

\* a dict of raw_tracks, with the fields that are read again
RawTrack(id, name, artists) == [id |-> id, name |-> name, artists |-> artists]

\* None, where an object is expected
NoneObject == [kind |-> "None"]

\* a track object of the service, with the fields main reads and its media type
TrackObject(id, name, artists, is_local, type) ==
    [id |-> id, name |-> name, artists |-> artists, is_local |-> is_local, type |-> type]

\* a playlist entry
Item(track) == [track |-> track]

\* the loop of main over items: the entries it keeps
Kept(its) == SelectSeq(its, LAMBDA it : ~(it.track = NoneObject \/ it.track.is_local))

\* the dict main appends to raw_tracks for the track object t
FlattenTrack(t) ==
    RawTrack(t.id, t.name,
             [n \in 1..Len(t.artists) |->
                 [id |-> t.artists[n].id, name |-> t.artists[n].name]])

\* the concatenation of the lists of a list
RECURSIVE ConcatAll(_)
ConcatAll(ss) == IF ss = <<>> THEN <<>> ELSE Head(ss) \o ConcatAll(Tail(ss))

\* a set as a list, in some order
RECURSIVE SetToSeq(_)
SetToSeq(S) ==
    IF S = {} THEN <<>>
    ELSE LET x == CHOOSE y \in S : TRUE IN <<x>> \o SetToSeq(S \ {x})

Min(a, b) == IF a < b THEN a ELSE b

\* s[i:i+n] for a 0-based i
Slice(s, i, n) == SubSeq(s, i + 1, Min(i + n, Len(s)))

\* the mutant: the rows go on although no track is left
NoTracksFoundNever(raw) == FALSE

\* if not raw_tracks
NoTracksFound(raw) == raw = <<>>

\* the mutant: a fetched page is put before the items fetched so far
ExtendInFront(its, page) == page \o its

\* items.extend(results["items"])
Extend(its, page) == its \o page

DigitChars == <<"0", "1", "2", "3", "4", "5", "6", "7", "8", "9">>

\* str(n) for n >= 0
RECURSIVE Decimal(_)
Decimal(n) ==
    IF n < 10 THEN <<DigitChars[n + 1]>>
    ELSE Decimal(n \div 10) \o <<DigitChars[(n % 10) + 1]>>

\* left-pad with "0" to the width w
RECURSIVE ZeroPad(_, _)
ZeroPad(txt, w) == IF Len(txt) >= w THEN txt ELSE ZeroPad(<<"0">> \o txt, w)

ID_WIDTH == 4

\* f"sp_{i:04d}"
RowId(i) == <<"s", "p", "_">> \o ZeroPad(Decimal(i), ID_WIDTH)

\* the genres of the artists of tr that artist_genre_map knows, in order
GenresOf(tr, genre_map) ==
    ConcatAll([n \in 1..Len(tr.artists) |-> Get(genre_map, tr.artists[n].id, <<>>)])

\* the row main builds for raw_tracks[i] (0-based i) once choices is shuffled:
\* the defensive overwrite of slot r, answer_idx and the dict appended to rows
RowOf(raw, i, chs, r, features_map, genre_map) ==
    LET tr == raw[i + 1]
        correct == choice_label(tr)
        chs2 == IF correct \notin Range(chs) THEN [chs EXCEPT ![r + 1] = correct] ELSE chs
    IN [id |-> RowId(i),
        title |-> tr.name,
        artist |-> Join([n \in 1..Len(tr.artists) |-> tr.artists[n].name], <<",", " ">>),
        emoji |-> synth_emoji_riddle(tr.name, GenresOf(tr, genre_map),
                                     Get(features_map, tr.id, EmptyDict)),
        choices |-> chs2,
        answer_idx |-> correct_answer_index(chs2, correct)]

----------------------------------------------------------------------------
(* The batches build_choices is tried on                                   *)

MaxBatch == 5

ArtistAl == [id |-> "a1", name |-> <<"A", "l">>]
ArtistBo == [id |-> "a2", name |-> <<"B", "o">>]

\* "Hi - Al" and "hi - Al" differ in letter case only
TrackPool == <<
    RawTrack("t1", <<"H", "i">>, <<ArtistAl>>),
    RawTrack("t2", <<"h", "i">>, <<ArtistAl>>),
    RawTrack("t3", <<"Y", "o">>, <<ArtistAl>>),
    RawTrack("t4", <<"Y", "o">>, <<ArtistAl, ArtistBo>>),
    RawTrack("t5", <<"G", "o">>, <<ArtistBo>>),
    RawTrack("t6", <<"U", "p">>, <<>>) >>

\* The batches, up to the order of their tracks: build_choices visits the tracks
\* in shuffled order, so the order of the batch does not change its outcomes.
Batches ==
    { [n \in 1..Len(s) |-> TrackPool[s[n]]] :
        s \in { t \in SeqsUpTo(1..Len(TrackPool), MaxBatch) :
                  /\ t # <<>>
                  /\ \A n \in 1..(Len(t) - 1) : t[n] <= t[n + 1] } }

NotWritten == [kind |-> "not written", value |-> <<>>]

YearIdle ==
    /\ release_date = [kind |-> "None", value |-> <<>>]
    /\ year = NotCalled
    /\ year_column = NotWritten

TriviaIdle ==
    /\ dataset = <<>>
    /\ year_min = 0
    /\ year_max = 0
    /\ sb_client = FALSE
    /\ rounds_target = 0
    /\ session_state = <<>>
    /\ username = <<>>
    /\ year_guess = 0
    /\ rendered = <<>>
    /\ calls = <<>>
    /\ table = <<>>
    /\ game = 0
    /\ inputs = 0

BoardIdle ==
    /\ daily = <<>>
    /\ board = <<>>
    /\ now = 0
    /\ ticks = 0
    /\ leaderboard = <<>>
    /\ saves = <<>>
    /\ moves = 0

AppsIdle == YearIdle /\ TriviaIdle /\ BoardIdle

MainIdle ==
    /\ remote = <<>>
    /\ max_tracks = 0
    /\ pc = "idle"
    /\ exc = "none"
    /\ next_page = 0
    /\ items = <<>>
    /\ raw_tracks = <<>>
    /\ track_ids = <<>>
    /\ artist_ids = {}
    /\ cursor = 0
    /\ audio_features_map = <<>>
    /\ artist_genre_map = <<>>
    /\ rows = <<>>
    /\ csv = <<>>

RiddleIdle ==
    /\ title = <<>>
    /\ genres = <<>>
    /\ audio_features = EmptyDict
    /\ audio_emojis = NotCalled
    /\ emojis = NotCalled

ChoicesIdle ==
    /\ all_tracks = <<>>
    /\ correct_idx = 0
    /\ choices = <<>>
    /\ answer_idx = -1
    /\ cpc = "idle"

InitChoices ==
    /\ all_tracks \in Batches
    /\ correct_idx \in 0..(Len(all_tracks) - 1)
    /\ choices = <<>>
    /\ answer_idx = -1
    /\ cpc = "start"
    /\ url = <<>>
    /\ playlist_id = NotCalled
    /\ RiddleIdle
    /\ MainIdle
    /\ AppsIdle

\* choices = build_choices(raw_tracks, i, k=3)
BuildChoices ==
    /\ cpc = "start"
    /\ choices' \in build_choices(all_tracks, correct_idx, K)
    /\ cpc' = "built"
    /\ UNCHANGED <<appVars, all_tracks, correct_idx, answer_idx, parseVars, riddleVars, mainVars>>

\* main: the defensive overwrite and answer_idx
AnswerIndex ==
    /\ cpc = "built"
    /\ LET correct == choice_label(all_tracks[correct_idx + 1]) IN
       \E r \in 0..(Len(choices) - 1) :
          /\ choices' = IF correct \notin Range(choices)
                        THEN [choices EXCEPT ![r + 1] = correct]
                        ELSE choices
          /\ answer_idx' = correct_answer_index(choices', correct)
    /\ cpc' = "done"
    /\ UNCHANGED <<appVars, all_tracks, correct_idx, parseVars, riddleVars, mainVars>>

NextChoices == BuildChoices \/ AnswerIndex

SpecChoices == InitChoices /\ [][NextChoices]_vars

----------------------------------------------------------------------------
(* The references parse_playlist_id is tried on: a head, up to MaxSegments *)
(* path segments joined by "/", and a tail.                                *)

MaxSegments == 4

UrlHeads == { <<>>,
              <<"/">>,
              <<"h", "t", "t", "p", "s", ":", "/", "/", "h", "/">>,
              <<"h", "t", "t", "p", "s", ":", "/", "/", "h">>,
              <<"/", "/", "h", "/">>,
              URI_PREFIX,
              <<"s", "p", "o", "t", "i", "f", "y", ":">> }

UrlSegments == { PLAYLIST, <<"A", "1">>, <<>>, <<"u", ":", "B">> }

UrlTails == { <<>>, <<"/">>, <<"?", "s", "i", "=", "x", "/", "y">>, <<"#", "f">> }

UrlInputs ==
    { h \o Join(segs, <<"/">>) \o t :
        h \in UrlHeads, segs \in SeqsUpTo(UrlSegments, MaxSegments), t \in UrlTails }

InitParse ==
    /\ url \in UrlInputs
    /\ playlist_id = NotCalled
    /\ ChoicesIdle
    /\ RiddleIdle
    /\ MainIdle
    /\ AppsIdle

ParsePlaylistId ==
    /\ playlist_id = NotCalled
    /\ playlist_id' = parse_playlist_id(url)
    /\ UNCHANGED <<appVars, url, choiceVars, riddleVars, mainVars>>

NextParse == ParsePlaylistId

SpecParse == InitParse /\ [][NextParse]_vars

----------------------------------------------------------------------------
(* The descriptor sets emoji_from_audio_features is tried on: each         *)
(* descriptor absent or at a value next to a threshold                     *)

\* the dict of the five descriptors
DictOf(d, e, v, a, t) ==
    [danceability |-> d, energy |-> e, valence |-> v, acousticness |-> a, tempo |-> t]

\* the dict with the keys in keys only
Restrict(dict, keys) == [key \in keys |-> dict[key]]

AudioInputs ==
    { Restrict(DictOf(d, e, v, a, t), keys) :
        d \in {69, 70}, e \in {69, 70}, v \in {35, 36, 64, 65}, a \in {59, 60},
        t \in {0, 1, 8000, 8001, 12999, 13000},
        keys \in SUBSET {"danceability", "energy", "valence", "acousticness", "tempo"} }

InitAudio ==
    /\ audio_features \in AudioInputs
    /\ audio_emojis = NotCalled
    /\ title = <<>>
    /\ genres = <<>>
    /\ emojis = NotCalled
    /\ url = <<>>
    /\ playlist_id = NotCalled
    /\ ChoicesIdle
    /\ MainIdle
    /\ AppsIdle

EmojiFromAudioFeatures ==
    /\ audio_emojis = NotCalled
    /\ audio_emojis' = Returned(emoji_from_audio_features(audio_features))
    /\ UNCHANGED <<appVars, title, genres, audio_features, emojis, parseVars, choiceVars, mainVars>>

NextAudio == EmojiFromAudioFeatures

SpecAudio == InitAudio /\ [][NextAudio]_vars

----------------------------------------------------------------------------
(* The titles, genre lists and descriptor sets synth_emoji_riddle is tried *)
(* on                                                                      *)

MaxTitleWords == 2

\* "lovers" holds "love" but not as a word; "hot" and "sad" are keywords of two
\* patterns each; "sun-day" holds two keywords of one pattern
TitleWords == { <<"L", "o", "v", "e">>,
                <<"l", "o", "v", "e", "r", "s">>,
                <<"h", "o", "t">>,
                <<"S", "a", "d">>,
                <<"D", "a", "n", "c", "e">>,
                <<"h", "a", "p", "p", "y", "!">>,
                <<"s", "u", "n", "-", "d", "a", "y">> }

TitleInputs == { Join(ws, <<" ">>) : ws \in SeqsUpTo(TitleWords, MaxTitleWords) }

\* "hip hop" and "trap" (which holds "rap") give the same glyph; "Indie Rock" with
\* "metal" matches three keys
GenreInputs == { <<>>,
                 << <<"h", "i", "p", " ", "h", "o", "p">> >>,
                 << <<"h", "i", "p", " ", "h", "o", "p">>, <<"t", "r", "a", "p">> >>,
                 << <<"D", "a", "n", "c", "e", " ", "P", "o", "p">> >>,
                 << <<"I", "n", "d", "i", "e", " ", "R", "o", "c", "k">>,
                    <<"m", "e", "t", "a", "l">> >>,
                 << <<"c", "l", "a", "s", "s", "i", "c", "a", "l">> >> }

RiddleAudioInputs == { EmptyDict,
                       DictOf(50, 50, 50, 50, 10000),
                       DictOf(80, 80, 80, 10, 10000),
                       DictOf(80, 10, 80, 10, 14000),
                       DictOf(10, 10, 20, 80, 7000) }

InitRiddle ==
    /\ title \in TitleInputs
    /\ genres \in GenreInputs
    /\ audio_features \in RiddleAudioInputs
    /\ audio_emojis = NotCalled
    /\ emojis = NotCalled
    /\ url = <<>>
    /\ playlist_id = NotCalled
    /\ ChoicesIdle
    /\ MainIdle
    /\ AppsIdle

SynthEmojiRiddle ==
    /\ emojis = NotCalled
    /\ emojis' = Returned(synth_emoji_riddle(title, genres, audio_features))
    /\ UNCHANGED <<appVars, title, genres, audio_features, audio_emojis, parseVars, choiceVars, mainVars>>

NextRiddle == SynthEmojiRiddle

SpecRiddle == InitRiddle /\ [][NextRiddle]_vars

----------------------------------------------------------------------------
(* The playlists main is run on, and what the service answers              *)

MaxItems == 3
PageSize == 2

ArtistAlObject == [id |-> "a1", name |-> <<"A", "l">>, genres |-> << <<"r", "a", "p">> >>]

\* the two catalog tracks have the same title and artist, up to letter case
ItemPool == {
    Item(NoneObject),
    Item(TrackObject(NULL, <<"U", "p">>, <<>>, TRUE, "track")),
    Item(TrackObject("e1", <<"E", "p">>, <<>>, FALSE, "episode")),
    Item(TrackObject(NULL, <<"L", "o", "v", "e">>, <<ArtistAl>>, FALSE, "track")),
    Item(TrackObject("t1", <<"L", "o", "v", "e">>, <<ArtistAl>>, FALSE, "track")),
    Item(TrackObject("t2", <<"l", "o", "v", "e">>, <<ArtistAl>>, FALSE, "track")) }

TrackCaps == {0, 2}

\* the audio features the service holds
CatalogFeatures ==
    [id \in {"t1", "t2"} |->
        IF id = "t1"
        THEN [id |-> "t1", danceability |-> 80, energy |-> 80, valence |-> 80,
              acousticness |-> 10, tempo |-> 14000]
        ELSE [id |-> "t2", danceability |-> 10, energy |-> 10, valence |-> 20,
              acousticness |-> 80, tempo |-> 0]]

\* the artists the service holds
CatalogArtists == [id \in {"a1"} |-> ArtistAlObject]

\* what a batch call can return for one identifier: the object, or None
AnswersFor(catalog, id) ==
    {NoneObject} \cup (IF id \in DOMAIN catalog THEN {catalog[id]} ELSE {})

\* what a batch call that does not fail can return for a batch
Responses(catalog, batch) ==
    { resp \in [1..Len(batch) -> UNION { AnswersFor(catalog, batch[n]) : n \in 1..Len(batch) }] :
        \A n \in 1..Len(batch) : resp[n] \in AnswersFor(catalog, batch[n]) }

\* page p of the playlist, and whether a page follows it
Page(p) == Slice(remote, (p - 1) * PageSize, PageSize)
HasNext(p) == p * PageSize < Len(remote)

InitMain ==
    /\ remote \in SeqsUpTo(ItemPool, MaxItems)
    /\ max_tracks \in TrackCaps
    /\ pc = "start"
    /\ exc = "none"
    /\ next_page = 0
    /\ items = <<>>
    /\ raw_tracks = <<>>
    /\ track_ids = <<>>
    /\ artist_ids = {}
    /\ cursor = 0
    /\ audio_features_map = <<>>
    /\ artist_genre_map = <<>>
    /\ rows = <<>>
    /\ csv = <<>>
    /\ url = PLAYLIST_URL
    /\ playlist_id = NotCalled
    /\ ChoicesIdle
    /\ RiddleIdle
    /\ AppsIdle

\* playlist_id = parse_playlist_id(PLAYLIST_URL)
MainStart ==
    /\ pc = "start"
    /\ playlist_id' = parse_playlist_id(url)
    /\ IF playlist_id'.kind = "return"
       THEN pc' = "fetch" /\ exc' = exc
       ELSE pc' = pc /\ exc' = playlist_id'.kind
    /\ UNCHANGED <<appVars, url, choiceVars, riddleVars, remote, max_tracks, next_page, items,
                   raw_tracks, track_ids, artist_ids, cursor, audio_features_map,
                   artist_genre_map, rows, csv>>

\* results = sp.playlist_tracks(playlist_id); items = results["items"]
FetchFirst ==
    /\ pc = "fetch"
    /\ exc = "none"
    /\ \/ /\ exc' = "SpotifyException"
          /\ UNCHANGED <<pc, items, next_page>>
       \/ /\ items' = Page(1)
          /\ next_page' = IF HasNext(1) THEN 2 ELSE 0
          /\ pc' = "paginate"
          /\ exc' = exc
    /\ UNCHANGED <<appVars, parseVars, choiceVars, riddleVars, remote, max_tracks, raw_tracks,
                   track_ids, artist_ids, cursor, audio_features_map, artist_genre_map,
                   rows, csv>>

\* while results["next"]: results = sp.next(results); items.extend(results["items"])
FetchNext ==
    /\ pc = "paginate"
    /\ exc = "none"
    /\ next_page # 0
    /\ \/ /\ exc' = "SpotifyException"
          /\ UNCHANGED <<items, next_page>>
       \/ /\ items' = Extend(items, Page(next_page))
          /\ next_page' = IF HasNext(next_page) THEN next_page + 1 ELSE 0
          /\ exc' = exc
    /\ UNCHANGED <<appVars, parseVars, choiceVars, riddleVars, remote, max_tracks, pc, raw_tracks,
                   track_ids, artist_ids, cursor, audio_features_map, artist_genre_map,
                   rows, csv>>

\* the loop over items: raw_tracks, track_ids, artist_ids
Flatten ==
    /\ pc = "paginate"
    /\ exc = "none"
    /\ next_page = 0
    /\ LET kept == Kept(items) IN
       /\ raw_tracks' = [n \in 1..Len(kept) |-> FlattenTrack(kept[n].track)]
       /\ track_ids' = [n \in 1..Len(kept) |-> kept[n].track.id]
       /\ artist_ids' = { a.id : a \in UNION { Range(kept[n].track.artists) :
                                                 n \in 1..Len(kept) } } \ {NULL}
    /\ pc' = "cap"
    /\ UNCHANGED <<appVars, parseVars, choiceVars, riddleVars, remote, max_tracks, exc, next_page,
                   items, cursor, audio_features_map, artist_genre_map, rows, csv>>

\* if MAX_TRACKS > 0: the cap; if not raw_tracks: raise SystemExit
CapAndCheck ==
    /\ pc = "cap"
    /\ exc = "none"
    /\ raw_tracks' = IF max_tracks > 0 THEN Take(raw_tracks, max_tracks) ELSE raw_tracks
    /\ track_ids' = IF max_tracks > 0
                    THEN SelectSeq([n \in 1..Len(raw_tracks') |-> raw_tracks'[n].id],
                                   LAMBDA id : id # NULL)
                    ELSE track_ids
    /\ IF NoTracksFound(raw_tracks')
       THEN exc' = "SystemExit" /\ pc' = pc
       ELSE exc' = exc /\ pc' = "audio"
    /\ cursor' = 0
    /\ UNCHANGED <<appVars, parseVars, choiceVars, riddleVars, remote, max_tracks, next_page,
                   items, artist_ids, audio_features_map, artist_genre_map, rows, csv>>

\* one turn of the loop over track_ids: feats = sp.audio_features(batch) fails
\* (it does whenever the batch holds None), returns None, or returns a list
\* with an object or None for each identifier
AudioBatch ==
    /\ pc = "audio"
    /\ exc = "none"
    /\ cursor < Len(track_ids)
    /\ LET batch == Slice(track_ids, cursor, AUDIO_BATCH) IN
       \/ /\ exc' = "SpotifyException"
          /\ UNCHANGED <<audio_features_map, cursor>>
       \/ /\ NULL \notin Range(batch)
          /\ exc' = "TypeError"
          /\ UNCHANGED <<audio_features_map, cursor>>
       \/ /\ NULL \notin Range(batch)
          /\ \E feats \in Responses(CatalogFeatures, batch) :
                LET got == { feats[n] : n \in { m \in 1..Len(feats) :
                                                  feats[m] # NoneObject } }
                    new == { f.id : f \in got }
                IN audio_features_map' =
                       [id \in DOMAIN audio_features_map \cup new |->
                           IF id \in new THEN CHOOSE f \in got : f.id = id
                           ELSE audio_features_map[id]]
          /\ cursor' = cursor + AUDIO_BATCH
          /\ exc' = exc
    /\ UNCHANGED <<appVars, parseVars, choiceVars, riddleVars, remote, max_tracks, pc, next_page,
                   items, raw_tracks, track_ids, artist_ids, artist_genre_map, rows, csv>>

\* the loop over track_ids is over
AudioDone ==
    /\ pc = "audio"
    /\ exc = "none"
    /\ cursor >= Len(track_ids)
    /\ pc' = "artists"
    /\ cursor' = 0
    /\ UNCHANGED <<appVars, parseVars, choiceVars, riddleVars, remote, max_tracks, exc, next_page,
                   items, raw_tracks, track_ids, artist_ids, audio_features_map,
                   artist_genre_map, rows, csv>>

\* one turn of the loop over artist_id_list: sp.artists(batch)["artists"] fails,
\* or gives a list with an object or None for each identifier; the loop over
\* the list raises AttributeError (None has no get) at the first None
ArtistsBatch ==
    /\ pc = "artists"
    /\ exc = "none"
    /\ cursor < Cardinality(artist_ids)
    /\ LET batch == Slice(SetToSeq(artist_ids), cursor, ARTIST_BATCH) IN
       \/ /\ exc' = "SpotifyException"
          /\ UNCHANGED <<artist_genre_map, cursor>>
       \/ \E artists \in Responses(CatalogArtists, batch) :
             LET nones == { n \in 1..Len(artists) : artists[n] = NoneObject }
                 done == { n \in 1..Len(artists) : \A m \in nones : n < m }
                 new == { artists[n].id : n \in done }
             IN /\ artist_genre_map' =
                       [id \in DOMAIN artist_genre_map \cup new |->
                           IF id \in new
                           THEN (CHOOSE a \in { artists[n] : n \in done } : a.id = id).genres
                           ELSE artist_genre_map[id]]
                /\ IF nones # {}
                   THEN exc' = "AttributeError" /\ cursor' = cursor
                   ELSE exc' = exc /\ cursor' = cursor + ARTIST_BATCH
    /\ UNCHANGED <<appVars, parseVars, choiceVars, riddleVars, remote, max_tracks, pc, next_page,
                   items, raw_tracks, track_ids, artist_ids, audio_features_map, rows, csv>>

\* the loop over artist_id_list is over
ArtistsDone ==
    /\ pc = "artists"
    /\ exc = "none"
    /\ cursor >= Cardinality(artist_ids)
    /\ pc' = "rows"
    /\ cursor' = 0
    /\ UNCHANGED <<appVars, parseVars, choiceVars, riddleVars, remote, max_tracks, exc, next_page,
                   items, raw_tracks, track_ids, artist_ids, audio_features_map,
                   artist_genre_map, rows, csv>>

\* one turn of the loop over raw_tracks: the row of raw_tracks[i]
BuildRow ==
    /\ pc = "rows"
    /\ exc = "none"
    /\ Len(rows) < Len(raw_tracks)
    /\ \E chs \in build_choices(raw_tracks, Len(rows), K) :
          \E r \in 0..(Len(chs) - 1) :
             rows' = Append(rows, RowOf(raw_tracks, Len(rows), chs, r,
                                        audio_features_map, artist_genre_map))
    /\ UNCHANGED <<appVars, parseVars, choiceVars, riddleVars, remote, max_tracks, pc, exc,
                   next_page, items, raw_tracks, track_ids, artist_ids, cursor,
                   audio_features_map, artist_genre_map, csv>>

\* df = pd.DataFrame(rows); df.to_csv(OUTPUT_CSV, index=False)
WriteCsv ==
    /\ pc = "rows"
    /\ exc = "none"
    /\ Len(rows) = Len(raw_tracks)
    /\ csv' = Append(csv, rows)
    /\ pc' = "done"
    /\ UNCHANGED <<appVars, parseVars, choiceVars, riddleVars, remote, max_tracks, exc, next_page,
                   items, raw_tracks, track_ids, artist_ids, cursor, audio_features_map,
                   artist_genre_map, rows>>

Next ==
    \/ MainStart
    \/ FetchFirst
    \/ FetchNext
    \/ Flatten
    \/ CapAndCheck
    \/ AudioBatch
    \/ AudioDone
    \/ ArtistsBatch
    \/ ArtistsDone
    \/ BuildRow
    \/ WriteCsv

Spec == InitMain /\ [][Next]_vars

----------------------------------------------------------------------------
(* Claims about parse_playlist_id (checked under SpecParse)                *)

IsUri == StartsWith(url, URI_PREFIX)

\* the positions of the path segments that follow a "playlist" segment
AfterPlaylist(parts) == { i + 1 : i \in { j \in 1..(Len(parts) - 1) : parts[j] = PLAYLIST } }

\* C3 as stated: for a reference that is no service URI, the result is the
\* segment that follows a "playlist" segment wherever that segment stands in the
\* path, and the last segment when no segment follows a "playlist" segment.
C3_AnyPlaylistSegment ==
    (playlist_id # NotCalled /\ ~IsUri /\ PathParts(url) # <<>>) =>
        LET parts == PathParts(url) IN
        IF AfterPlaylist(parts) # {}
        THEN \E i \in AfterPlaylist(parts) : playlist_id = Returned(parts[i])
        ELSE playlist_id = Returned(parts[Len(parts)])

\* C3 amended: a service URI gives the text after its last colon; any other
\* reference gives the second path segment when the FIRST segment is "playlist"
\* and there are at least two segments, the last segment otherwise, and raises
\* IndexError when the path has no non-empty segment.
C3_FirstSegmentOnly ==
    playlist_id # NotCalled =>
        IF IsUri
        THEN /\ playlist_id.kind = "return"
             /\ \A i \in 1..Len(playlist_id.value) : playlist_id.value[i] # ":"
             /\ url = SubSeq(url, 1, Len(url) - Len(playlist_id.value)) \o playlist_id.value
             /\ url[Len(url) - Len(playlist_id.value)] = ":"
        ELSE LET parts == PathParts(url) IN
             IF parts = <<>> THEN playlist_id = Raised("IndexError")
             ELSE IF Len(parts) >= 2 /\ parts[1] = PLAYLIST
                  THEN playlist_id = Returned(parts[2])
                  ELSE playlist_id = Returned(parts[Len(parts)])

\* a "playlist" segment that is not the first one, with two segments after it:
\* the last segment is returned, not the one after "playlist"
C3_Witness ==
    /\ ~IsUri
    /\ LET parts == PathParts(url) IN
       /\ Len(parts) = 4
       /\ parts[1] # PLAYLIST
       /\ parts[2] = PLAYLIST
       /\ parts[3] # parts[4]
       /\ playlist_id = Returned(parts[4])

----------------------------------------------------------------------------
(* Claims about the choice list of a row (checked under SpecChoices)       *)

CorrectLabel == choice_label(all_tracks[correct_idx + 1])

\* C1: the choice list of a row has between 1 and K+1 entries, holds the correct
\* track's label exactly once, and answer_idx is the 0-based position of that
\* label, whatever the two shuffles did.
C1_ChoiceListShape ==
    cpc = "done" =>
        /\ Len(choices) \in 1..(K + 1)
        /\ Cardinality({ n \in 1..Len(choices) : choices[n] = CorrectLabel }) = 1
        /\ answer_idx \in 0..(Len(choices) - 1)
        /\ choices[answer_idx + 1] = CorrectLabel

\* a full list cut from a larger batch that holds the correct label twice, with
\* the correct label shuffled away from the front
C1_Witness ==
    /\ cpc = "done"
    /\ Len(all_tracks) > K + 1
    /\ Len(choices) = K + 1
    /\ \E n \in 1..Len(all_tracks) :
          n # correct_idx + 1 /\ choice_label(all_tracks[n]) = CorrectLabel
    /\ answer_idx > 0

\* C2: no two entries of a list that build_choices produced are equal when
\* compared case-insensitively.
C2_NoCaseInsensitiveDuplicate ==
    cpc \in {"built", "done"} =>
        \A m, n \in 1..Len(choices) :
            m # n => Lower(choices[m]) # Lower(choices[n])

\* the batch holds the correct track and another track whose label differs from
\* the correct one in letter case only, and the list has distractors
C2_Witness ==
    /\ cpc = "built"
    /\ Len(choices) >= 3
    /\ \E n \in 1..Len(all_tracks) :
          /\ choice_label(all_tracks[n]) # CorrectLabel
          /\ Lower(choice_label(all_tracks[n])) = Lower(CorrectLabel)

----------------------------------------------------------------------------
(* Claims about emoji_from_audio_features (checked under SpecAudio)        *)

GlyphIf(cond, glyph) == IF cond THEN <<glyph>> ELSE <<>>

\* the glyphs of the five thresholds in their fixed order, the slow glyph given
\* when slow holds; a descriptor missing from the set reads as 0
ThresholdGlyphs(af, slow) ==
    LET d == Get(af, "danceability", 0)
        e == Get(af, "energy", 0)
        v == Get(af, "valence", 0)
        a == Get(af, "acousticness", 0)
        t == Get(af, "tempo", 0)
    IN GlyphIf(d >= 70, "MAN DANCING")
       \o GlyphIf(e >= 70, "HIGH VOLTAGE SIGN")
       \o GlyphIf(v >= 65, "SMILING FACE WITH SMILING EYES")
       \o GlyphIf(v <= 35, "CRYING FACE")
       \o GlyphIf(a >= 60, "VIOLIN")
       \o GlyphIf(t >= 13000, "STOPWATCH")
       \o GlyphIf(slow, "TURTLE")

AllDescriptors == {"danceability", "energy", "valence", "acousticness", "tempo"}

\* C9 as stated: for a set that holds all five descriptors the result is the
\* first 3 of the threshold glyphs, the slow glyph being given for every
\* tempo <= 80.
C9_SlowForEveryTempoUpTo80 ==
    (audio_emojis # NotCalled /\ DOMAIN audio_features = AllDescriptors) =>
        audio_emojis.value =
            Take(ThresholdGlyphs(audio_features, audio_features["tempo"] <= 8000), 3)

\* C9 amended: the result is the first 3 of the threshold glyphs, the slow glyph
\* being given for a tempo <= 80 that is not 0; a tempo of 0 gives no tempo
\* glyph; never both valence glyphs and never both tempo glyphs; the empty set
\* gives no glyph.
C9_SlowForNonZeroTempoUpTo80 ==
    audio_emojis # NotCalled =>
        LET t == Get(audio_features, "tempo", 0)
            r == audio_emojis.value
        IN /\ audio_features = EmptyDict => r = <<>>
           /\ audio_features # EmptyDict =>
                 r = Take(ThresholdGlyphs(audio_features, t # 0 /\ t <= 8000), 3)
           /\ ~({"SMILING FACE WITH SMILING EYES", "CRYING FACE"} \subseteq Range(r))
           /\ ~({"STOPWATCH", "TURTLE"} \subseteq Range(r))
           /\ Len(r) <= 3

\* a slow, danceable, energetic track: the slow glyph is the third glyph
C9_Witness ==
    /\ DOMAIN audio_features = AllDescriptors
    /\ audio_features["tempo"] = 8000
    /\ audio_emojis = Returned(<<"MAN DANCING", "HIGH VOLTAGE SIGN", "TURTLE">>)

----------------------------------------------------------------------------
(* Claims about synth_emoji_riddle (checked under SpecRiddle)              *)

\* the glyphs of the three passes, in the order title, genre, acoustic
PassGlyphs ==
    emoji_from_title(title) \o emoji_from_genres(genres)
        \o emoji_from_audio_features(audio_features)

\* the positions of s that hold the first occurrence of their glyph
FirstOccurrences(s) == { i \in 1..Len(s) : \A j \in 1..(i - 1) : s[j] # s[i] }

\* the first n distinct glyphs of s, each at its first occurrence
FirstDistinct(s, n) ==
    LET first == FirstOccurrences(s)
        m == IF Cardinality(first) < n THEN Cardinality(first) ELSE n
    IN [x \in 1..m |->
           s[CHOOSE i \in first : Cardinality({ j \in first : j <= i }) = x]]

\* C7: the riddle of a row is never empty, for every title (the empty title and
\* titles with no keyword included), every genre list and every descriptor set.
C7_RiddleNeverEmpty ==
    emojis # NotCalled => emojis.value # <<>>

\* the empty title with no genre and no descriptor gets the fallback riddle
C7_Witness ==
    /\ title = <<>>
    /\ genres = <<>>
    /\ audio_features = EmptyDict
    /\ emojis = Returned(<<"MUSICAL NOTE", "SPARKLES", "HEADPHONE">>)

\* C8: the riddle is the title glyphs (at most 3), then the genre glyphs (at
\* most 2), then the acoustic glyphs (at most 3), each glyph kept at its first
\* occurrence only, cut to the first 5 distinct glyphs (the fallback glyphs when
\* no pass gives a glyph): no glyph twice, at most 5 glyphs.
C8_OrderedDistinctAtMostFive ==
    emojis # NotCalled =>
        LET r == emojis.value IN
        /\ Len(emoji_from_title(title)) <= 3
        /\ Len(emoji_from_genres(genres)) <= 2
        /\ Len(emoji_from_audio_features(audio_features)) <= 3
        /\ PassGlyphs # <<>> => r = FirstDistinct(PassGlyphs, 5)
        /\ PassGlyphs = <<>> => r = <<"MUSICAL NOTE", "SPARKLES", "HEADPHONE">>
        /\ \A m, n \in 1..Len(r) : m # n => r[m] # r[n]
        /\ Len(r) <= 5

\* the passes give a glyph twice and more than 5 distinct glyphs
C8_Witness ==
    /\ emojis # NotCalled
    /\ Cardinality(FirstOccurrences(PassGlyphs)) > 5
    /\ Cardinality(FirstOccurrences(PassGlyphs)) < Len(PassGlyphs)
    /\ \E i \in 1..5 : i \notin FirstOccurrences(PassGlyphs)
    /\ Len(emojis.value) = 5

----------------------------------------------------------------------------
(* Claims about main (checked under Spec)                                  *)

\* a playlist entry that is a real catalog track
IsCatalogTrack(it) ==
    /\ it.track # NoneObject
    /\ ~it.track.is_local
    /\ it.track.type # "episode"
    /\ it.track.id # NULL

\* raw_tracks is built
Flattened == pc \in {"cap", "audio", "artists", "rows", "done"}

\* the cap applied to raw, once main is past it
Capped(raw) == IF pc # "cap" /\ max_tracks > 0 THEN Take(raw, max_tracks) ELSE raw

\* C4: raw_tracks holds the real catalog tracks of the playlist and nothing
\* else: every entry that is a local file, a podcast episode or has a null
\* identifier is skipped.
C4_OnlyCatalogTracksKept ==
    Flattened =>
        LET real == SelectSeq(items, IsCatalogTrack) IN
        /\ \A n \in 1..Len(raw_tracks) : raw_tracks[n].id # NULL
        /\ raw_tracks = Capped([n \in 1..Len(real) |-> FlattenTrack(real[n].track)])

\* C5: the output file is written at most once, only at the end of a run that
\* did not fail and kept at least one track, and then with one row for every
\* retained track; a run that ended with an exception wrote nothing.
C5_CompleteDatasetOrNone ==
    /\ Len(csv) <= 1
    /\ exc # "none" => csv = <<>>
    /\ pc = "done" => Len(csv) = 1
    /\ csv # <<>> =>
          /\ pc = "done"
          /\ raw_tracks # <<>>
          /\ Len(csv[1]) = Len(raw_tracks)
          /\ \A n \in 1..Len(raw_tracks) : csv[1][n].title = raw_tracks[n].name

\* a pagination call fails after the first page was fetched: nothing is written
C5_Witness ==
    /\ pc = "paginate"
    /\ exc = "SpotifyException"
    /\ items # <<>>
    /\ next_page # 0
    /\ csv = <<>>

\* C6: a failing, empty or incomplete answer to an enrichment call never ends
\* the run: main is never stopped by an exception in the two enrichment loops.
C6_EnrichmentNeverAborts ==
    ~(pc \in {"audio", "artists"} /\ exc # "none")

\* "sp_" and the four decimal digits of i, for i < 10000
PositionalId(i) ==
    <<"s", "p", "_",
      DigitChars[((i \div 1000) % 10) + 1], DigitChars[((i \div 100) % 10) + 1],
      DigitChars[((i \div 10) % 10) + 1], DigitChars[(i % 10) + 1]>>

\* C10: the retained tracks are the kept entries of the playlist in fetch order
\* over all pages (cut by the track cap), the i-th of them is emitted as the
\* i-th row with id "sp_" and i on 4 digits, the ids are distinct, and the file
\* holds as many rows as there are retained tracks.
C10_RowsPositional ==
    /\ Flattened =>
          LET kept == Kept(remote) IN
          raw_tracks = Capped([n \in 1..Len(kept) |-> FlattenTrack(kept[n].track)])
    /\ pc \in {"rows", "done"} =>
          /\ Len(rows) <= Len(raw_tracks)
          /\ \A n \in 1..Len(rows) :
                /\ rows[n].id = PositionalId(n - 1)
                /\ rows[n].title = raw_tracks[n].name
                /\ rows[n].artist =
                       Join([m \in 1..Len(raw_tracks[n].artists) |->
                                raw_tracks[n].artists[m].name], <<",", " ">>)
          /\ \A m, n \in 1..Len(rows) : m # n => rows[m].id # rows[n].id
    /\ pc = "done" => (Len(rows) = Len(raw_tracks) /\ csv = <<rows>>)

\* a playlist of more than one page with a skipped entry between two tracks of
\* different titles: two rows are written
C10_Witness ==
    /\ pc = "done"
    /\ Len(remote) > PageSize
    /\ Len(csv[1]) = 2
    /\ Len(Kept(remote)) < Len(remote)
    /\ csv[1][1].title # csv[1][2].title
    /\ csv[1][2].id = <<"s", "p", "_", "0", "0", "0", "1">>

----------------------------------------------------------------------------
(* year_from_date, and the year column of a row                            *)

\* Python values of more than one type: None, an int, a str
NoneValue == [kind |-> "None", value |-> <<>>]
IntValue(n) == [kind |-> "int", value |-> n]
StrValue(s) == [kind |-> "str", value |-> s]

\* str.strip() of the spaces at both ends
RECURSIVE Strip(_)
Strip(s) ==
    IF s = <<>> THEN s
    ELSE IF Head(s) = " " THEN Strip(Tail(s))
    ELSE IF s[Len(s)] = " " THEN Strip(SubSeq(s, 1, Len(s) - 1))
    ELSE s

DigitValue(c) == CHOOSE v \in 0..9 : DigitChars[v + 1] = c

\* the number written by a string of digits and underscores
RECURSIVE NumberOf(_)
NumberOf(s) ==
    IF s = <<>> THEN 0
    ELSE LET front == SubSeq(s, 1, Len(s) - 1)
             last == s[Len(s)]
         IN IF last = "_" THEN NumberOf(front)
            ELSE NumberOf(front) * 10 + DigitValue(last)

\* int(s) of a str: spaces around, an optional sign, then digits that single
\* underscores may separate; anything else raises ValueError
PyInt(s) ==
    LET t == Strip(s)
        signed == t # <<>> /\ Head(t) \in {"+", "-"}
        body == IF signed THEN Tail(t) ELSE t
        wellFormed ==
            /\ body # <<>>
            /\ \A i \in 1..Len(body) : body[i] \in Digits \cup {"_"}
            /\ Head(body) \in Digits
            /\ body[Len(body)] \in Digits
            /\ \A i \in 1..(Len(body) - 1) : ~(body[i] = "_" /\ body[i + 1] = "_")
    IN IF ~wellFormed THEN Raised("ValueError")
       ELSE IF signed /\ Head(t) = "-" THEN Returned(0 - NumberOf(body))
       ELSE Returned(NumberOf(body))

\* try: return int(release_date[:4]) / except Exception: return None
\* (None[:4] raises TypeError, which the except clause catches as well)
year_from_date(date) ==
    IF date.kind # "str" THEN NoneValue
    ELSE LET r == PyInt(Take(date.value, 4))
         IN IF r.kind = "return" THEN IntValue(r.value) ELSE NoneValue

\* "year": tr["year"] or ""
YearColumn(y) == IF y = NoneValue \/ y = IntValue(0) THEN StrValue(<<>>) ELSE y

MaxDateLen == 5

DateChars == {"0", "1", "9", "-", " ", "_", "u"}

\* release dates: None, and the strings over DateChars
DateInputs == {NoneValue} \cup { StrValue(s) : s \in SeqsUpTo(DateChars, MaxDateLen) }

InitYear ==
    /\ release_date \in DateInputs
    /\ year = NotCalled
    /\ year_column = NotWritten
    /\ url = <<>>
    /\ playlist_id = NotCalled
    /\ ChoicesIdle
    /\ RiddleIdle
    /\ MainIdle
    /\ TriviaIdle
    /\ BoardIdle

\* "year": year_from_date(...) of the raw track
YearFromDate ==
    /\ year = NotCalled
    /\ year' = year_from_date(release_date)
    /\ UNCHANGED <<release_date, year_column, parseVars, choiceVars, riddleVars, mainVars,
                   triviaVars, boardVars>>

\* the "year" entry of the row dict
WriteYearColumn ==
    /\ year # NotCalled
    /\ year_column = NotWritten
    /\ year_column' = YearColumn(year)
    /\ UNCHANGED <<release_date, year, parseVars, choiceVars, riddleVars, mainVars,
                   triviaVars, boardVars>>

NextYear == YearFromDate \/ WriteYearColumn

SpecYear == InitYear /\ [][NextYear]_vars

----------------------------------------------------------------------------
(* Claims about year_from_date (checked under SpecYear)                    *)

IsDateString(d) == d.kind = "str"

FourDigitPrefix(d) ==
    IsDateString(d) /\ Len(d.value) >= 4 /\ \A i \in 1..4 : d.value[i] \in Digits

\* the number the digits s[1..n] write, left to right
RECURSIVE DigitsNumber(_, _)
DigitsNumber(s, n) ==
    IF n = 0 THEN 0 ELSE 10 * DigitsNumber(s, n - 1) + DigitValue(s[n])

\* C11: year_from_date never raises, gives the integer of the first four
\* characters when they are four digits, and None for every other string and
\* for a missing date; a None year is written to the year column as "".
C11_NullUnlessFourDigitPrefix ==
    /\ year # NotCalled =>
          IF FourDigitPrefix(release_date)
          THEN year = IntValue(DigitsNumber(release_date.value, 4))
          ELSE year = NoneValue
    /\ (year_column # NotWritten /\ year = NoneValue) => year_column = StrValue(<<>>)


----------------------------------------------------------------------------
(* trivia_scoreboard_app: Guess the Year, a session of ROUNDS_TARGET rounds *)
(* The elapsed time and the finish time of a session are left out of the   *)
(* payload: no branch of the script reads them. The setting ROUNDS_TARGET  *)
(* is held by rounds_target, so that shorter sessions are explored too.    *)

ROUNDS_TARGET == 10
MAX_ROUND_SCORE == 500
YEAR_PENALTY == 50
VALID_YEAR_MIN == 1900
VALID_YEAR_MAX == 2100
FALLBACK_YEAR_MIN == 1960
DEFAULT_YEAR == 2000
NAME_MAX == 32

\* float("nan"), what pandas holds for a missing year
NanValue == [kind |-> "nan", value |-> <<>>]

Abs(a) == IF a < 0 THEN 0 - a ELSE a
Max(a, b) == IF a > b THEN a ELSE b

\* to_int_or_none of a year_num or of the slider value: an int stays; None
\* gives None, and NaN makes int(float(x)) raise, which gives None as well
to_int_or_none(x) == IF x.kind = "int" THEN x ELSE NoneValue

\* score_year: <<score, dy>>
score_year(year_true, guess) ==
    LET yt == to_int_or_none(year_true)
        yg == to_int_or_none(guess)
    IN IF yt = NoneValue \/ yg = NoneValue THEN <<MAX_ROUND_SCORE, 0>>
       ELSE LET dy == Abs(yt.value - yg.value)
            IN <<Max(0, MAX_ROUND_SCORE - YEAR_PENALTY * dy), dy>>

\* the mutant: an index is picked without looking at used
pick_any_index(df_len, used) == 0..(df_len - 1)

\* pick_new_index: the indices random.choice / random.randrange can give
pick_new_index(df_len, used) ==
    LET unused == (0..(df_len - 1)) \ used
    IN IF unused = {} THEN 0..(df_len - 1) ELSE unused

\* a row of tracks, with the columns the script reads
Track(name, artist, year_num) == [title |-> name, artist |-> artist, year_num |-> year_num]

\* load_tracks: yr_min, yr_max. pandas holds a year_num column with a missing
\* value as floats, of which none is an int: the years count only when every
\* row has one
YearRange(trs, this_year) ==
    LET ints == \A j \in 1..Len(trs) : trs[j].year_num.kind = "int"
        years == { trs[i].year_num.value :
                     i \in { j \in 1..Len(trs) :
                               /\ ints
                               /\ trs[j].year_num.value >= VALID_YEAR_MIN
                               /\ trs[j].year_num.value <= VALID_YEAR_MAX } }
    IN IF years = {} THEN <<FALLBACK_YEAR_MIN, this_year>>
       ELSE <<CHOOSE y \in years : \A z \in years : y <= z,
              CHOOSE y \in years : \A z \in years : y >= z>>

\* default_year of the slider
DefaultYear(lo, hi) == Min(Max(DEFAULT_YEAR, lo), hi)

\* the session state the first script run sets up, with cur_idx = idx
NewSession(idx) ==
    [round_num |-> 1, used_idx |-> {}, cur_idx |-> idx, locked |-> FALSE,
     total_score |-> 0, history |-> <<>>, saved_session |-> FALSE]

\* the body of `if submit and not st.session_state.locked`; your_guess and
\* answer_year hold the values whose str() the script stores
SubmitGuess(ss, row, guess) ==
    LET r == score_year(row.year_num, IntValue(guess))
    IN [ss EXCEPT !.locked = TRUE,
                  !.total_score = @ + r[1],
                  !.history = Append(@, [round |-> ss.round_num,
                                         title |-> row.title,
                                         artist |-> row.artist,
                                         your_guess |-> guess,
                                         answer_year |-> row.year_num,
                                         error_years |-> r[2],
                                         score |-> r[1]])]

\* go_next_round, with idx what pick_new_index gave
go_next_round(ss, idx) ==
    [ss EXCEPT !.round_num = @ + 1,
               !.locked = FALSE,
               !.used_idx = @ \cup {ss.cur_idx},
               !.cur_idx = idx]

\* the mutant: the results page forgets that the session was sent
MarkSavedNever(ss) == ss

\* st.session_state.saved_session = True
MarkSaved(ss) == [ss EXCEPT !.saved_session = TRUE]

\* final_df["score"].sum()
RECURSIVE SumScores(_)
SumScores(history) ==
    IF history = <<>> THEN 0 ELSE history[1].score + SumScores(Tail(history))

\* round((total_score / max_score) * 100, 1) in tenths of a percent: the
\* nearest tenth, a tie to the even one. (The float product is off the tie
\* for some totals of 8-round sessions, which no specification explores.)
PercentTenths(total_score, max_score) ==
    LET q == (total_score * 1000) \div max_score
        r == (total_score * 1000) % max_score
    IN IF 2 * r > max_score \/ (2 * r = max_score /\ q % 2 = 1) THEN q + 1 ELSE q

\* the payload of submit_session_to_supabase
Payload(name, total_score, max_score, rounds) ==
    [username |-> Take(Strip(name), NAME_MAX),
     total_score |-> total_score,
     max_score |-> max_score,
     percent |-> IF max_score > 0 THEN PercentTenths(total_score, max_score) ELSE 0,
     rounds |-> rounds]

\* one run of the script from the top to the results block, from session state
\* ss0: the state it leaves, what it renders, and whether it sends the session
Pass(ss0, guess, submit) ==
    LET row == dataset[ss0.cur_idx + 1]
        ss1 == IF submit /\ ~ss0.locked THEN SubmitGuess(ss0, row, guess) ELSE ss0
        results == ss1.round_num > rounds_target
        save == results /\ ss1.history # <<>> /\ ~ss1.saved_session
    IN [ss |-> IF save THEN MarkSaved(ss1) ELSE ss1,
        rendered |-> [screen |-> IF results THEN "results" ELSE "round",
                      submit_disabled |-> ss0.locked,
                      next_disabled |-> results \/ ~ss1.locked],
        save |-> save,
        total_score |-> SumScores(ss1.history)]

\* submit_session_to_supabase(username, total_score, max_score, ROUNDS_TARGET, ...):
\* nothing without a client or a name; else the insert, which may raise
SubmitSession(name, total_score) ==
    /\ calls' = Append(calls, [game |-> game, username |-> name, total_score |-> total_score])
    /\ IF ~sb_client \/ Strip(name) = <<>>
       THEN table' = table
       ELSE \/ table' = Append(table, Payload(name, total_score,
                                              rounds_target * MAX_ROUND_SCORE, rounds_target))
            \/ table' = table

\* a script run that no Play Again click started
RunScript(ss0, name, guess, submit) ==
    LET p == Pass(ss0, guess, submit)
    IN /\ session_state' = p.ss
       /\ rendered' = p.rendered
       /\ IF p.save THEN SubmitSession(name, p.total_score)
          ELSE UNCHANGED <<calls, table>>

MaxGames == 1
MaxInputs == 1

\* any rerun that no widget of the script started (a sidebar interaction)
Rerun ==
    /\ RunScript(session_state, username, year_guess, FALSE)
    /\ UNCHANGED <<setupVars, username, year_guess, game, inputs, builderVars, boardVars>>

\* the player moves the year slider to g
MoveSlider(g) ==
    /\ inputs < MaxInputs
    /\ g # year_guess
    /\ year_guess' = g
    /\ inputs' = inputs + 1
    /\ RunScript(session_state, username, g, FALSE)
    /\ UNCHANGED <<setupVars, username, game, builderVars, boardVars>>

\* the player types the name u into the sidebar
EditUsername(u) ==
    /\ inputs < MaxInputs
    /\ u # username
    /\ username' = u
    /\ inputs' = inputs + 1
    /\ RunScript(session_state, u, year_guess, FALSE)
    /\ UNCHANGED <<setupVars, year_guess, game, builderVars, boardVars>>

\* a click on Submit Guess, which the last run rendered enabled
ClickSubmit ==
    /\ ~rendered.submit_disabled
    /\ RunScript(session_state, username, year_guess, TRUE)
    /\ UNCHANGED <<setupVars, username, year_guess, game, inputs, builderVars, boardVars>>

\* a click on Next Song, which the last run rendered enabled: the callback
\* go_next_round, then the script
ClickNext ==
    /\ rendered.screen = "round"
    /\ ~rendered.next_disabled
    /\ \E idx \in pick_new_index(Len(dataset),
                                 session_state.used_idx \cup {session_state.cur_idx}) :
          RunScript(go_next_round(session_state, idx), username, year_guess, FALSE)
    /\ UNCHANGED <<setupVars, username, year_guess, game, inputs, builderVars, boardVars>>

\* a click on Play Again: the script runs down to the button, resets the
\* session state and st.rerun() runs the script again
ClickPlayAgain ==
    /\ rendered.screen = "results"
    /\ game < MaxGames
    /\ LET p1 == Pass(session_state, year_guess, FALSE)
       IN /\ \E idx \in pick_new_index(Len(dataset), {}) :
                LET p2 == Pass(NewSession(idx), year_guess, FALSE)
                IN /\ session_state' = p2.ss
                   /\ rendered' = p2.rendered
          /\ IF p1.save THEN SubmitSession(username, p1.total_score)
             ELSE UNCHANGED <<calls, table>>
    /\ game' = game + 1
    /\ UNCHANGED <<setupVars, username, year_guess, inputs, builderVars, boardVars>>

\* the names typed: none, a blank one, a real one
Names == {<<>>, <<" ">>, <<"K">>}

\* the years the slider is moved to
GuessChoices == {year_min, year_max} \cup ({1997} \cap (year_min..year_max))

ThisYears == {2026}

MaxRounds == 2

\* the datasets of the year game: one track; a track of unknown year; two
\* tracks twelve years apart
OneTrack == <<Track(<<"A">>, <<"X">>, IntValue(2000))>>
UnknownYear == <<Track(<<"C">>, <<"Z">>, NanValue)>>
TwoTracks == <<Track(<<"A">>, <<"X">>, IntValue(2000)), Track(<<"B">>, <<"Y">>, IntValue(1988))>>

\* the dataset and the session length: the one-track datasets with the
\* ROUNDS_TARGET of the source, all of them with shorter sessions
TriviaSetups ==
    ({OneTrack, UnknownYear} \X {ROUNDS_TARGET})
        \cup ({OneTrack, UnknownYear, TwoTracks} \X (1..MaxRounds))

\* the state after the first script run of a session of n rounds on the
\* dataset trs
FirstRun(trs, n) ==
    /\ dataset = trs
    /\ rounds_target = n
    /\ \E y \in ThisYears : /\ year_min = YearRange(trs, y)[1]
                           /\ year_max = YearRange(trs, y)[2]
    /\ sb_client \in BOOLEAN
    /\ \E idx \in pick_new_index(Len(trs), {}) :
          /\ session_state = NewSession(idx)
          /\ rendered = [screen |-> "round", submit_disabled |-> FALSE,
                         next_disabled |-> TRUE]
    /\ username = <<>>
    /\ year_guess = DefaultYear(year_min, year_max)
    /\ calls = <<>>
    /\ table = <<>>
    /\ game = 0
    /\ inputs = 0

InitTrivia ==
    /\ \E setup \in TriviaSetups : FirstRun(setup[1], setup[2])
    /\ url = <<>>
    /\ playlist_id = NotCalled
    /\ ChoicesIdle
    /\ RiddleIdle
    /\ MainIdle
    /\ YearIdle
    /\ BoardIdle

NextTrivia ==
    \/ Rerun
    \/ \E g \in GuessChoices : MoveSlider(g)
    \/ \E u \in Names : EditUsername(u)
    \/ ClickSubmit
    \/ ClickNext
    \/ ClickPlayAgain

SpecTrivia == InitTrivia /\ [][NextTrivia]_vars

MaxTracks == 10

\* datasets of n tracks that differ by their index only
SameTracks(n) == [i \in 1..n |-> Track(<<"A">>, <<"X">>, IntValue(2000))]

\* sessions of ROUNDS_TARGET rounds in which the player only clicks
InitTracks ==
    /\ \E n \in 1..MaxTracks : FirstRun(SameTracks(n), ROUNDS_TARGET)
    /\ url = <<>>
    /\ playlist_id = NotCalled
    /\ ChoicesIdle
    /\ RiddleIdle
    /\ MainIdle
    /\ YearIdle
    /\ BoardIdle

NextTracks == ClickSubmit \/ ClickNext \/ ClickPlayAgain

SpecTracks == InitTracks /\ [][NextTracks]_vars

----------------------------------------------------------------------------
(* Claims about trivia_scoreboard_app                                      *)

\* the calls of submit_session_to_supabase made in game g
CallsOf(g) == { i \in 1..Len(calls) : calls[i].game = g }

\* C12 (SpecTrivia): between its start and the next Play Again a session is
\* sent to the leaderboard at most once, whatever reruns the results page
\* goes through; the write is armed until the session is sent, and Play Again
\* arms it again.
C12_SessionSentAtMostOnce ==
    /\ \A g \in 0..game : Cardinality(CallsOf(g)) <= 1
    /\ session_state.saved_session <=> CallsOf(game) # {}
    /\ Len(table) <= Len(calls)

\* two sessions were played to the end and each was sent and stored once
C12_Witness ==
    /\ game = 1
    /\ rendered.screen = "results"
    /\ Len(calls) = 2
    /\ calls[1].game = 0
    /\ calls[2].game = 1
    /\ Len(table) = 2

\* the score and the error of a history entry, computed from its years
EntryScored(e) ==
    e.answer_year.kind = "int" =>
        LET dy == IF e.answer_year.value > e.your_guess
                  THEN e.answer_year.value - e.your_guess
                  ELSE e.your_guess - e.answer_year.value
        IN /\ e.error_years = dy
           /\ e.score = (IF 50 * dy > 500 THEN 0 ELSE 500 - 50 * dy)

\* C14 (SpecTrivia): every round score is max(0, 500 - 50 * |true - guess|)
\* with the error |true - guess|, lies in 0..500, and the total of a session
\* never exceeds max_score = ROUNDS_TARGET * 500.
C14_ScoresAndTotalBounded ==
    /\ \A i \in 1..Len(session_state.history) :
          /\ EntryScored(session_state.history[i])
          /\ session_state.history[i].score \in 0..500
    /\ session_state.total_score <= rounds_target * 500
    /\ SumScores(session_state.history) <= rounds_target * 500

\* C15 (SpecTrivia): every round is scored exactly once, so that on the
\* results page history holds exactly ROUNDS_TARGET entries, for the rounds
\* 1..ROUNDS_TARGET in order, and total_score is the sum of their scores.
C15_EachRoundScoredOnce ==
    /\ Len(session_state.history) <= session_state.round_num
    /\ session_state.total_score = SumScores(session_state.history)
    /\ rendered.screen = "results" =>
          /\ Len(session_state.history) = rounds_target
          /\ \A i \in 1..Len(session_state.history) : session_state.history[i].round = i

AllIndices == 0..(Len(dataset) - 1)

\* C16 (SpecTracks): used_idx holds the indices of the earlier rounds of the
\* session (Next adds the index it leaves, Play Again empties it, nothing
\* else touches it or the current index), the current index is not among them
\* unless every index was used, and so the rounds played so far showed
\* distinct tracks as long as the dataset had any left.
C16_NoRepeatWhileUnusedRemain ==
    /\ [](/\ (session_state.cur_idx \notin session_state.used_idx
                 \/ session_state.used_idx = AllIndices)
          /\ session_state.cur_idx \in AllIndices
          /\ Cardinality(session_state.used_idx)
                = Min(session_state.round_num - 1, Len(dataset)))
    /\ [][IF game' # game
          THEN session_state'.used_idx = {}
          ELSE IF session_state'.round_num # session_state.round_num
          THEN session_state'.used_idx
                   = session_state.used_idx \cup {session_state.cur_idx}
          ELSE /\ session_state'.used_idx = session_state.used_idx
               /\ session_state'.cur_idx = session_state.cur_idx]_vars

\* the tenth round of a second session on ten tracks: nine indices used, the
\* current one is the tenth
C16_Witness ==
    /\ game = 1
    /\ Len(dataset) = ROUNDS_TARGET
    /\ session_state.round_num = ROUNDS_TARGET
    /\ Cardinality(session_state.used_idx) = ROUNDS_TARGET - 1
    /\ session_state.cur_idx \notin session_state.used_idx

----------------------------------------------------------------------------
(* sound_bite_app: Guess the Year & Popularity, with the daily leaderboard *)
(* One day is modelled: the date string and the daily row stay what they   *)
(* are. A session is one browser tab; its script runs are atomic up to the *)
(* remote calls of the leaderboard save, between which other sessions run. *)

FULL_SCORE == 1000
YEAR_POINTS == 20
POP_POINTS == 8
PENALTY_CAP == 600
SCORE_FLOOR == 50
DEFAULT_POP == 70
NO_VALUE == 1000000000
MICROS_PER_MS == 1000

DAILY == "Daily Challenge"
ARCADE == "Arcade Mix"

\* a cell of year_num or pop_num, as row.get hands it over: a Python int
\* (kind "int"), or what pandas keeps in a numeric column, a numpy integer
\* (kind "int64") or NaN, neither of which is an instance of int
Int64Value(n) == [kind |-> "int64", value |-> n]

\* isinstance(v, int)
IsInt(v) == v.kind = "int"

\* score_guess without its texts
score_guess(year_true, pop_true, yg, pg) ==
    LET dy == IF IsInt(year_true) THEN Abs(year_true.value - yg) ELSE 0
        dp == IF IsInt(pop_true) THEN Abs(pop_true.value - pg) ELSE 0
        year_penalty == IF IsInt(year_true) THEN Min(YEAR_POINTS * dy, PENALTY_CAP) ELSE 0
        pop_penalty == IF IsInt(pop_true) THEN Min(POP_POINTS * dp, PENALTY_CAP) ELSE 0
    IN IF ~IsInt(year_true) /\ ~IsInt(pop_true)
       THEN [score |-> 0, year_err |-> NoneValue, pop_err |-> NoneValue,
             total_err |-> NoneValue]
       ELSE [score |-> Max(SCORE_FLOOR, FULL_SCORE - year_penalty - pop_penalty),
             year_err |-> IF IsInt(year_true) THEN IntValue(dy) ELSE NoneValue,
             pop_err |-> IF IsInt(pop_true) THEN IntValue(dp) ELSE NoneValue,
             total_err |-> IntValue(dy + dp)]

\* (x or 10**9): None and 0 are falsy
OrNoValue(x) == IF x.kind = "int" /\ x.value # 0 THEN x.value ELSE NO_VALUE

\* is_better(new, old) of the leaderboard save
is_better(new, old) ==
    IF new.score # old.score THEN new.score > old.score
    ELSE IF OrNoValue(new.total_abs_error) # OrNoValue(old.total_abs_error)
    THEN OrNoValue(new.total_abs_error) < OrNoValue(old.total_abs_error)
    ELSE OrNoValue(IntValue(new.elapsed_ms)) < OrNoValue(IntValue(old.elapsed_ms))

\* a row of tracks, with the columns the script reads
BoardTrack(name, artist, year_num, pop_num) ==
    [title |-> name, artist |-> artist, year_num |-> year_num, pop_num |-> pop_num]

\* a cell as df[...].tolist() gives it: a numpy integer becomes an int
ToList(x) == IF x.kind = "int64" THEN IntValue(x.value) ELSE x

\* load_tracks: yr_min, yr_max
BoardYearRange(trs, this_year) ==
    YearRange([i \in 1..Len(trs) |->
                  Track(trs[i].title, trs[i].artist, ToList(trs[i].year_num))],
              this_year)

\* int((datetime.now(CENTRAL).timestamp() - start_time) * 1000)
ElapsedMs(start_time) == (now - start_time) \div MICROS_PER_MS

\* the session state and the widgets after the first script run
FirstBoardRun ==
    [mode |-> DAILY, row |-> daily.row, locked |-> FALSE, start_time |-> now,
     total_score |-> 0, rounds |-> 0,
     username |-> <<>>,
     year_guess |-> DefaultYear(daily.year_min, daily.year_max),
     pop_guess |-> DEFAULT_POP,
     submit_disabled |-> FALSE,
     save |-> <<>>]

\* the script from the top to the Submit button, with the widget values m, u,
\* yg and pg: the mode is stored, the daily mode picks the daily row, and the
\* button is drawn disabled in a locked round
Render(b, m, u, yg, pg) ==
    [b EXCEPT !.mode = m, !.username = u, !.year_guess = yg, !.pop_guess = pg,
              !.row = IF m = DAILY THEN daily.row ELSE @,
              !.submit_disabled = b.locked]

\* date_str
DateStr(b) == IF b.mode = DAILY THEN daily.date_str ELSE "arcade"

\* the payload of the leaderboard save
BoardPayload(b, result) ==
    [date |-> DateStr(b),
     username |-> Take(Strip(b.username), NAME_MAX),
     score |-> result.score,
     year_err |-> result.year_err,
     pop_err |-> result.pop_err,
     total_abs_error |-> result.total_err,
     elapsed_ms |-> ElapsedMs(b.start_time),
     title |-> daily.tracks[b.row + 1].title,
     artist |-> daily.tracks[b.row + 1].artist]

\* select("id,score,total_abs_error,elapsed_ms").eq("date", d).eq("username", u)
SelectExisting(d, u) ==
    LET Matches(r) == r.date = d /\ r.username = u
        Columns(r) == [id |-> r.id, score |-> r.score,
                       total_abs_error |-> r.total_abs_error,
                       elapsed_ms |-> r.elapsed_ms]
        found == SelectSeq(leaderboard, Matches)
    IN [i \in 1..Len(found) |-> Columns(found[i])]

\* the row the table holds for a payload, under the id the table gave it
StoredRow(payload, id) ==
    [id |-> id, date |-> payload.date, username |-> payload.username,
     score |-> payload.score, year_err |-> payload.year_err,
     pop_err |-> payload.pop_err, total_abs_error |-> payload.total_abs_error,
     elapsed_ms |-> payload.elapsed_ms, title |-> payload.title,
     artist |-> payload.artist]

\* update(payload).eq("id", id)
UpdateRow(payload, id) ==
    [i \in 1..Len(leaderboard) |->
        IF leaderboard[i].id = id THEN StoredRow(payload, id) ELSE leaderboard[i]]

\* insert(payload)
InsertRow(payload) == Append(leaderboard, StoredRow(payload, Len(leaderboard) + 1))

\* a save that ended, for the record
Saved(s, payload, outcome) ==
    saves' = Append(saves, [session |-> s, payload |-> payload, outcome |-> outcome])

MaxTicks == 2
MaxMoves == 2
MaxSubmits == 2

\* the clock steps: less than a millisecond, and ten minutes
TickSteps == {400, 600000000}

\* the clock advances
Tick(d) ==
    /\ ticks < MaxTicks
    /\ now' = now + d
    /\ ticks' = ticks + 1
    /\ UNCHANGED <<daily, board, leaderboard, saves, moves, builderVars, triviaVars>>

\* a session whose script is not waiting for the leaderboard
Ready(s) == s \in DOMAIN board /\ board[s].save = <<>>

\* the player of session s picks the mode m
SelectMode(s, m) ==
    /\ Ready(s)
    /\ moves < MaxMoves
    /\ m # board[s].mode
    /\ moves' = moves + 1
    /\ board' = [board EXCEPT ![s] = Render(@, m, @.username, @.year_guess, @.pop_guess)]
    /\ UNCHANGED <<daily, now, ticks, leaderboard, saves, builderVars, triviaVars>>

\* the player of session s types the name u
TypeName(s, u) ==
    /\ Ready(s)
    /\ moves < MaxMoves
    /\ u # board[s].username
    /\ moves' = moves + 1
    /\ board' = [board EXCEPT ![s] = Render(@, @.mode, u, @.year_guess, @.pop_guess)]
    /\ UNCHANGED <<daily, now, ticks, leaderboard, saves, builderVars, triviaVars>>

\* the player of session s moves the sliders to yg and pg
MoveSliders(s, yg, pg) ==
    /\ Ready(s)
    /\ moves < MaxMoves
    /\ <<yg, pg>> # <<board[s].year_guess, board[s].pop_guess>>
    /\ moves' = moves + 1
    /\ board' = [board EXCEPT ![s] = Render(@, @.mode, @.username, yg, pg)]
    /\ UNCHANGED <<daily, now, ticks, leaderboard, saves, builderVars, triviaVars>>

\* a click on Submit Guess in session s: the handler up to the select of the
\* leaderboard save, which returns the rows of the date and the name or raises
SubmitClick(s) ==
    /\ Ready(s)
    /\ ~board[s].submit_disabled
    /\ LET b == Render(board[s], board[s].mode, board[s].username,
                       board[s].year_guess, board[s].pop_guess)
           track == daily.tracks[b.row + 1]
           result == score_guess(track.year_num, track.pop_num, b.year_guess, b.pop_guess)
           scored == [b EXCEPT !.locked = TRUE,
                               !.total_score = @ + result.score,
                               !.rounds = @ + 1]
           payload == BoardPayload(b, result)
       IN IF b.locked
          THEN /\ board' = [board EXCEPT ![s] = b]
               /\ UNCHANGED saves
          ELSE /\ b.rounds < MaxSubmits
               /\ IF daily.client /\ b.mode = DAILY /\ Strip(b.username) # <<>>
                  THEN \/ /\ board' = [board EXCEPT ![s] =
                                 [scored EXCEPT !.save =
                                     <<[payload |-> payload,
                                        existing |-> SelectExisting(payload.date,
                                                                    payload.username)]>>]]
                          /\ UNCHANGED saves
                       \/ /\ board' = [board EXCEPT ![s] = scored]
                          /\ Saved(s, payload, "failed")
                  ELSE /\ board' = [board EXCEPT ![s] = scored]
                       /\ UNCHANGED saves
    /\ UNCHANGED <<daily, now, ticks, leaderboard, moves, builderVars, triviaVars>>

\* the rest of the save of session s: the update of the first row found if
\* the payload is better, the insert if no row was found; either may raise
FinishSave(s) ==
    /\ s \in DOMAIN board
    /\ board[s].save # <<>>
    /\ LET payload == board[s].save[1].payload
           existing == board[s].save[1].existing
       IN IF existing # <<>>
          THEN IF is_better(payload, existing[1])
               THEN \/ /\ leaderboard' = UpdateRow(payload, existing[1].id)
                       /\ Saved(s, payload, "updated")
                    \/ /\ UNCHANGED leaderboard
                       /\ Saved(s, payload, "failed")
               ELSE /\ UNCHANGED leaderboard
                    /\ Saved(s, payload, "kept")
          ELSE \/ /\ leaderboard' = InsertRow(payload)
                  /\ Saved(s, payload, "inserted")
               \/ /\ UNCHANGED leaderboard
                  /\ Saved(s, payload, "failed")
    /\ board' = [board EXCEPT ![s].save = <<>>]
    /\ UNCHANGED <<daily, now, ticks, moves, builderVars, triviaVars>>

\* a click on Next Song in session s: the callback next_round, with idx the
\* row new_round_row gives in the arcade mode, then the script
NextClick(s) ==
    /\ Ready(s)
    /\ \E idx \in 0..(Len(daily.tracks) - 1) :
          LET b == [board[s] EXCEPT !.locked = FALSE,
                                    !.start_time = now,
                                    !.row = IF board[s].mode = ARCADE THEN idx ELSE @]
          IN board' = [board EXCEPT ![s] = Render(b, b.mode, b.username,
                                                  b.year_guess, b.pop_guess)]
    /\ UNCHANGED <<daily, now, ticks, leaderboard, saves, moves, builderVars, triviaVars>>

\* the names typed: none, a blank one, two real ones
BoardNames == {<<>>, <<" ">>, <<"K">>, <<"J">>}

\* the values the sliders are moved to
YearGuesses == {daily.year_min, daily.year_max}
PopGuesses == {DEFAULT_POP, 65}

\* the datasets: object columns of Python ints, and the numeric columns of
\* pandas
PyTracks ==
    <<BoardTrack(<<"A">>, <<"X">>, IntValue(1999), IntValue(70)),
      BoardTrack(<<"B">>, <<"Y">>, IntValue(1997), NanValue)>>
NumpyTracks ==
    <<BoardTrack(<<"A">>, <<"X">>, Int64Value(1999), Int64Value(70)),
      BoardTrack(<<"B">>, <<"Y">>, Int64Value(1997), Int64Value(50))>>

TODAY == "2026-11-03"
YESTERDAY == "2026-11-02"

\* what the table holds in the morning: nothing, a row of the day before
\* under the name K, or a row of the day under another name
StoredBefore(d, u) ==
    StoredRow([date |-> d, username |-> u, score |-> FULL_SCORE,
               year_err |-> IntValue(0), pop_err |-> IntValue(0),
               total_abs_error |-> IntValue(0), elapsed_ms |-> 900,
               title |-> <<"A">>, artist |-> <<"X">>], 1)
MorningBoards == {<<>>, <<StoredBefore(YESTERDAY, <<"K">>)>>, <<StoredBefore(TODAY, <<"Z">>)>>}

\* the state after n sessions opened the app on the same day
FirstRuns(n) ==
    /\ \E trs \in {PyTracks, NumpyTracks} : \E idx \in 0..(Len(trs) - 1) :
       \E c \in BOOLEAN : \E y \in ThisYears :
          daily = [tracks |-> trs, year_min |-> BoardYearRange(trs, y)[1],
                   year_max |-> BoardYearRange(trs, y)[2], client |-> c,
                   date_str |-> TODAY, row |-> idx]
    /\ now = 0
    /\ ticks = 0
    /\ board = [s \in 1..n |-> FirstBoardRun]
    /\ leaderboard \in MorningBoards
    /\ saves = <<>>
    /\ moves = 0
    /\ url = <<>>
    /\ playlist_id = NotCalled
    /\ ChoicesIdle
    /\ RiddleIdle
    /\ MainIdle
    /\ YearIdle
    /\ TriviaIdle

NextBoard ==
    \/ \E d \in TickSteps : Tick(d)
    \/ \E s \in DOMAIN board : \E m \in {DAILY, ARCADE} : SelectMode(s, m)
    \/ \E s \in DOMAIN board : \E u \in BoardNames : TypeName(s, u)
    \/ \E s \in DOMAIN board : \E yg \in YearGuesses : \E pg \in PopGuesses : MoveSliders(s, yg, pg)
    \/ \E s \in DOMAIN board : SubmitClick(s)
    \/ \E s \in DOMAIN board : FinishSave(s)
    \/ \E s \in DOMAIN board : NextClick(s)

\* one session: its submissions are made one after another
InitDaily == FirstRuns(1)
SpecDaily == InitDaily /\ [][NextBoard]_vars

\* two sessions of the same day, whose players type a name and click; the
\* clock stands still
InitRace == FirstRuns(2)

NextRace ==
    \/ \E s \in DOMAIN board : \E u \in BoardNames : TypeName(s, u)
    \/ \E s \in DOMAIN board : SubmitClick(s)
    \/ \E s \in DOMAIN board : FinishSave(s)
    \/ \E s \in DOMAIN board : NextClick(s)

SpecRace == InitRace /\ [][NextRace]_vars

----------------------------------------------------------------------------
(* Claims about sound_bite_app                                             *)

\* the order of the daily leaderboard: higher score first, then lower
\* total_abs_error, then lower elapsed_ms
ErrorBelow(a, b) == a.kind = "int" /\ b.kind = "int" /\ a.value < b.value
RanksAbove(a, b) ==
    \/ a.score > b.score
    \/ /\ a.score = b.score
       /\ ErrorBelow(a.total_abs_error, b.total_abs_error)
    \/ /\ a.score = b.score
       /\ a.total_abs_error = b.total_abs_error
       /\ a.elapsed_ms < b.elapsed_ms

\* the submissions of the day made under the name u whose save ended
SubmissionsOf(u) ==
    { saves[i].payload : i \in { j \in 1..Len(saves) : saves[j].payload.username = u } }

\* the rows the table holds for the day and the name u
RowsOf(u) ==
    { i \in 1..Len(leaderboard) :
        leaderboard[i].date = TODAY /\ leaderboard[i].username = u }

SavedNames == { saves[i].payload.username : i \in 1..Len(saves) }

\* C13 (SpecDaily): as long as no call of the service failed, after the
\* submissions one session made one after another under a name the table
\* holds one row for the day and the name, that row is one of the
\* submissions, and no submission ranks above it.
C13_BestSubmissionStored ==
    (\A i \in 1..Len(saves) : saves[i].outcome # "failed") =>
        \A u \in SavedNames :
            /\ Cardinality(RowsOf(u)) = 1
            /\ \A i \in RowsOf(u) :
                  /\ \E p \in SubmissionsOf(u) : leaderboard[i] = StoredRow(p, leaderboard[i].id)
                  /\ \A p \in SubmissionsOf(u) : ~RanksAbove(p, leaderboard[i])

\* C17 (SpecRace): the table never holds two rows with the same date and
\* the same username, however the saves of two sessions interleave.
C17_OneRowPerDateAndName ==
    \A i, j \in 1..Len(leaderboard) :
        (leaderboard[i].date = leaderboard[j].date
            /\ leaderboard[i].username = leaderboard[j].username) => i = j

====
